---- MODULE Spec2Model ----
(***************************************************************************)
(* Model of the exhibitor live-update service: the process-wide TTL cache  *)
(* of app.py and the spreadsheet adapter DirectGoogleSheetsManager of      *)
(* direct_google_sheets_manager.py.                                        *)
(*                                                                         *)
(* Text is modelled as a sequence of one-character strings, so that        *)
(* str.strip, str.startswith, str.replace and int(float(...)) are computed *)
(* character by character as Python computes them.                         *)
(***************************************************************************)
EXTENDS Integers, Sequences, FiniteSets, TLC

(***************************************************************************)
(* Python text primitives                                                  *)
(***************************************************************************)

\* str.strip() removes leading and trailing whitespace characters.
IsSpace(c) == c \in {" ", "\t", "\n"}

RECURSIVE LStrip(_)
LStrip(s) ==
    IF s = <<>> THEN s
    ELSE IF IsSpace(Head(s)) THEN LStrip(Tail(s)) ELSE s

RECURSIVE RStrip(_)
RStrip(s) ==
    IF s = <<>> THEN s
    ELSE IF IsSpace(s[Len(s)]) THEN RStrip(SubSeq(s, 1, Len(s) - 1)) ELSE s

Strip(s) == RStrip(LStrip(s))

\* str.startswith(prefix)
StartsWith(s, prefix) ==
    /\ Len(s) >= Len(prefix)
    /\ SubSeq(s, 1, Len(prefix)) = prefix

\* str.replace(old, new) for one-character old and new
ReplaceChar(s, old, new) ==
    [i \in 1..Len(s) |-> IF s[i] = old THEN new ELSE s[i]]

Digits == <<"0", "1", "2", "3", "4", "5", "6", "7", "8", "9">>

IsDigit(c) == \E i \in 1..Len(Digits) : Digits[i] = c

DigitVal(c) == (CHOOSE i \in 1..Len(Digits) : Digits[i] = c) - 1

AllDigits(s) == \A i \in 1..Len(s) : IsDigit(s[i])

RECURSIVE DecVal(_)
DecVal(s) ==
    IF s = <<>> THEN 0
    ELSE 10 * DecVal(SubSeq(s, 1, Len(s) - 1)) + DigitVal(s[Len(s)])

\* str.lower() on ASCII letters
LowerChar(c) ==
    CASE c = "A" -> "a"
      [] c = "B" -> "b"
      [] c = "C" -> "c"
      [] c = "D" -> "d"
      [] c = "E" -> "e"
      [] c = "F" -> "f"
      [] c = "G" -> "g"
      [] c = "H" -> "h"
      [] c = "I" -> "i"
      [] c = "J" -> "j"
      [] c = "K" -> "k"
      [] c = "L" -> "l"
      [] c = "M" -> "m"
      [] c = "N" -> "n"
      [] c = "O" -> "o"
      [] c = "P" -> "p"
      [] c = "Q" -> "q"
      [] c = "R" -> "r"
      [] c = "S" -> "s"
      [] c = "T" -> "t"
      [] c = "U" -> "u"
      [] c = "V" -> "v"
      [] c = "W" -> "w"
      [] c = "X" -> "x"
      [] c = "Y" -> "y"
      [] c = "Z" -> "z"
      [] OTHER -> c

Lower(s) == [i \in 1..Len(s) |-> LowerChar(s[i])]

(***************************************************************************)
(* float(text): surrounding whitespace is ignored, then an optional sign,  *)
(* then "inf", "infinity" or "nan" in any letter case, or decimal digits   *)
(* with an optional fraction.  kind is "err" (ValueError), "nan", "inf" or *)
(* "fin"; for "fin", ip is the integral part and neg the sign.  Exponents  *)
(* and digit-group underscores are accepted by Python and not modelled:    *)
(* the cell texts of the model contain neither.                            *)
(***************************************************************************)
FloatValue(kind, neg, ip) == [kind |-> kind, neg |-> neg, ip |-> ip]

\* Decimal digits with one point at position d
FloatFraction(b, d, neg) ==
    IF /\ AllDigits(SubSeq(b, 1, d - 1))
       /\ AllDigits(SubSeq(b, d + 1, Len(b)))
       /\ Len(b) > 1
    THEN FloatValue("fin", neg, DecVal(SubSeq(b, 1, d - 1)))
    ELSE FloatValue("err", neg, 0)

\* The text after the sign: low is its lower case, dot the positions of "."
FloatDigits(b, low, dot, neg) ==
    IF low = <<"i", "n", "f">>
       \/ low = <<"i", "n", "f", "i", "n", "i", "t", "y">>
    THEN FloatValue("inf", neg, 0)
    ELSE IF low = <<"n", "a", "n">>
    THEN FloatValue("nan", neg, 0)
    ELSE IF dot = {}
    THEN IF b # <<>> /\ AllDigits(b)
         THEN FloatValue("fin", neg, DecVal(b))
         ELSE FloatValue("err", neg, 0)
    ELSE IF Cardinality(dot) = 1
    THEN FloatFraction(b, CHOOSE i \in dot : TRUE, neg)
    ELSE FloatValue("err", neg, 0)

FloatBody(b, neg) ==
    FloatDigits(b, Lower(b), {i \in 1..Len(b) : b[i] = "."}, neg)

\* float of a text without surrounding whitespace
FloatStripped(s) ==
    IF s = <<>> THEN FloatValue("err", FALSE, 0)
    ELSE IF Head(s) = "-" THEN FloatBody(Tail(s), TRUE)
    ELSE IF Head(s) = "+" THEN FloatBody(Tail(s), FALSE)
    ELSE FloatBody(s, FALSE)

ParseFloat(text) == FloatStripped(Strip(text))

(***************************************************************************)
(* _safe_int(value, default): int(float(str(value))) if value else default *)
(* with ValueError and TypeError caught.  int() truncates toward zero,     *)
(* raises ValueError on NaN and OverflowError on an infinity; the          *)
(* OverflowError is not caught and leaves _safe_int (exc = TRUE).          *)
(***************************************************************************)
\* int(f) inside the try of _safe_int
IntOfFloat(f, default) ==
    IF f.kind = "err" \/ f.kind = "nan"
    THEN [exc |-> FALSE, val |-> default]
    ELSE IF f.kind = "inf" THEN [exc |-> TRUE, val |-> 0]
    ELSE [exc |-> FALSE, val |-> IF f.neg THEN 0 - f.ip ELSE f.ip]

SafeInt(value, default) ==
    IF value = <<>> THEN [exc |-> FALSE, val |-> default]
    ELSE IntOfFloat(ParseFloat(value), default)

RECURSIVE IntStr(_)
\* str(n) for a row index n >= 0
IntStr(n) ==
    IF n < 10 THEN <<Digits[n + 1]>>
    ELSE IntStr(n \div 10) \o <<Digits[(n % 10) + 1]>>

(***************************************************************************)
(* Texts of the program                                                    *)
(***************************************************************************)
T_Delivered == <<"D", "e", "l", "i", "v", "e", "r", "e", "d">>

T_Received == <<"R", "e", "c", "e", "i", "v", "e", "d">>

T_OutForDelivery == <<"O", "u", "t", " ", "f", "o", "r", " ", "d", "e", "l", "i", "v", "e", "r", "y">>

T_InRoute == <<"I", "n", " ", "r", "o", "u", "t", "e", " ", "f", "r", "o", "m", " ", "w", "a", "r", "e", "h", "o", "u", "s", "e">>

T_InProcess == <<"I", "n", " ", "P", "r", "o", "c", "e", "s", "s">>

T_cancelled == <<"c", "a", "n", "c", "e", "l", "l", "e", "d">>

T_Cancelled == <<"C", "a", "n", "c", "e", "l", "l", "e", "d">>

T_New == <<"N", "e", "w">>

H_Booth == <<"B", "o", "o", "t", "h", " ", "#">>

H_Exhibitor == <<"E", "x", "h", "i", "b", "i", "t", "o", "r", " ", "N", "a", "m", "e">>

H_Item == <<"I", "t", "e", "m">>

H_Date == <<"D", "a", "t", "e">>

H_Color == <<"C", "o", "l", "o", "r">>

H_Quantity == <<"Q", "u", "a", "n", "t", "i", "t", "y">>

H_Status == <<"S", "t", "a", "t", "u", "s">>

H_Comments == <<"C", "o", "m", "m", "e", "n", "t", "s">>

H_Section == <<"S", "e", "c", "t", "i", "o", "n">>

H_Type == <<"T", "y", "p", "e">>

H_User == <<"U", "s", "e", "r">>

H_Hour == <<"H", "o", "u", "r">>

H_Boomers == <<"B", "o", "o", "m", "e", "r", "'", "s", " ", "Q", "u", "a", "n", "t", "i", "t", "y">>

W_Orders == <<"O", "r", "d", "e", "r", "s">>

W_SectionPrefix == <<"S", "e", "c", "t", "i", "o", "n">>

W_Inventory == <<"S", "h", "o", "w", " ", "I", "n", "v", "e", "n", "t", "o", "r", "y">>

D_OrderPrefix == <<"O", "r", "d", "e", "r", ":", " ">>

D_IdPrefix == <<"O", "R", "D", "-">>

(***************************************************************************)
(* map_order_status: dictionary lookup with default 'in-process'           *)
(***************************************************************************)
\* A faulty variant of MapOrderStatus: the table has no entry for "Received".
MapOrderStatusWithoutReceived(sheet_status) ==
    CASE sheet_status = T_Delivered      -> "delivered"
      [] sheet_status = T_OutForDelivery -> "out-for-delivery"
      [] sheet_status = T_InRoute        -> "in-route"
      [] sheet_status = T_InProcess      -> "in-process"
      [] sheet_status = T_cancelled      -> "cancelled"
      [] sheet_status = T_Cancelled      -> "cancelled"
      [] sheet_status = T_New            -> "in-process"
      [] OTHER                           -> "in-process"

MapOrderStatus(sheet_status) ==
    CASE sheet_status = T_Delivered      -> "delivered"
      [] sheet_status = T_Received       -> "delivered"
      [] sheet_status = T_OutForDelivery -> "out-for-delivery"
      [] sheet_status = T_InRoute        -> "in-route"
      [] sheet_status = T_InProcess      -> "in-process"
      [] sheet_status = T_cancelled      -> "cancelled"
      [] sheet_status = T_Cancelled      -> "cancelled"
      [] sheet_status = T_New            -> "in-process"
      [] OTHER                           -> "in-process"

(***************************************************************************)
(* process_orders_dataframe                                                *)
(*                                                                         *)
(* A table (the value of worksheet.get_all_values()) is a sequence of      *)
(* rows, a row a sequence of cell texts.  df.columns is the first row with *)
(* every cell stripped; row.get(name, default) is the cell under the       *)
(* column labelled name, or default when no column has that label.  The    *)
(* cells are texts, never NaN, so row.isna().all() is false for every row. *)
(* pandas answers a label that several columns carry with a Series; the    *)
(* header rows of the model carry each label the code reads at most once.  *)
(***************************************************************************)
Columns(df) == [i \in 1..Len(df[1]) |-> Strip(df[1][i])]

RowGet(columns, row, name, default) ==
    LET at == {i \in 1..Len(columns) : columns[i] = name}
    IN  IF at = {} THEN default
        ELSE row[CHOOSE i \in at : \A j \in at : i <= j]

\* The order dictionary built from a row that has a booth number and an
\* exhibitor name; quantity and boomers are the results of _safe_int.
BuildOrder(columns, row, idx, booth_num, exhibitor_name, item, date, quantity, boomers) ==
    IF quantity.exc \/ boomers.exc
    THEN [kind |-> "raise"]
    ELSE [kind  |-> "order",
          order |->
            [id               |-> D_IdPrefix \o ReplaceChar(date, "/", "-")
                                  \o <<"-">> \o booth_num
                                  \o <<"-">> \o IntStr(idx),
             booth_number     |-> booth_num,
             exhibitor_name   |-> exhibitor_name,
             item             |-> item,
             description      |-> D_OrderPrefix \o item,
             color            |-> Strip(RowGet(columns, row, H_Color, <<>>)),
             quantity         |-> quantity.val,
             status           |-> MapOrderStatus(
                                    Strip(RowGet(columns, row, H_Status, <<>>))),
             order_date       |-> date,
             comments         |-> Strip(RowGet(columns, row, H_Comments, <<>>)),
             section          |-> Strip(RowGet(columns, row, H_Section, <<>>)),
             type             |-> Strip(RowGet(columns, row, H_Type, <<>>)),
             user             |-> Strip(RowGet(columns, row, H_User, <<>>)),
             hour             |-> Strip(RowGet(columns, row, H_Hour, <<>>)),
             boomers_quantity |-> boomers.val,
             direct_sheets_processed |-> TRUE,
             data_source      |-> "Direct Google Sheets API"]]

\* The row's essential data decide whether it is skipped.
RowWithEssentials(columns, row, idx, booth_num, exhibitor_name) ==
    IF booth_num = <<>> \/ exhibitor_name = <<>>
    THEN [kind |-> "skip"]
    ELSE BuildOrder(columns, row, idx, booth_num, exhibitor_name,
                    Strip(RowGet(columns, row, H_Item, <<>>)),
                    Strip(RowGet(columns, row, H_Date, <<>>)),
                    SafeInt(RowGet(columns, row, H_Quantity, <<"1">>), 1),
                    SafeInt(RowGet(columns, row, H_Boomers, <<"0">>), 1))

\* One iteration of the loop over df.iterrows(): kind is "skip" (continue),
\* "raise" (an exception leaves the loop) or "order" (orders.append(order)).
ProcessRow(columns, row, idx) ==
    RowWithEssentials(columns, row, idx,
                      Strip(RowGet(columns, row, H_Booth, <<>>)),
                      Strip(RowGet(columns, row, H_Exhibitor, <<>>)))

RECURSIVE ProcessRows(_, _, _, _)

\* The loop after the iteration on the first of rows returned r
AfterRow(columns, rows, idx, orders, r) ==
    IF r.kind = "raise" THEN [exc |-> TRUE, orders |-> orders]
    ELSE ProcessRows(columns, Tail(rows), idx + 1,
                     IF r.kind = "order"
                     THEN Append(orders, r.order) ELSE orders)

\* The loop: rows are the data rows still to visit, idx the index of the
\* first of them, orders the list built so far.
ProcessRows(columns, rows, idx, orders) ==
    IF rows = <<>> THEN [exc |-> FALSE, orders |-> orders]
    ELSE AfterRow(columns, rows, idx, orders,
                  ProcessRow(columns, Head(rows), idx))

\* df.empty: no row or no column
DfEmpty(df) == df = <<>> \/ Len(df[1]) = 0

\* The except branch returns [] whatever the loop had built.
OrdersOrNone(r) == IF r.exc THEN <<>> ELSE r.orders

ProcessOrdersDataframe(df) ==
    IF DfEmpty(df) \/ Len(df) < 2 THEN <<>>
    ELSE OrdersOrNone(ProcessRows(Columns(df), Tail(df), 0, <<>>))

(***************************************************************************)
(* The remote spreadsheet and the adapter's readers                        *)
(*                                                                         *)
(* A spreadsheet is the sequence of its worksheets, in the order           *)
(* spreadsheet.worksheets() lists them; a worksheet is [title, values].    *)
(* Every remote call can fail: ok = FALSE stands for an exception raised   *)
(* by open_by_key, worksheet or get_all_values.  client is self.gc.        *)
(***************************************************************************)
HasWorksheet(sh, title) == \E i \in 1..Len(sh) : sh[i].title = title

\* spreadsheet.worksheet(title): the first worksheet with that title
Worksheet(sh, title) ==
    sh[CHOOSE i \in 1..Len(sh) :
          /\ sh[i].title = title
          /\ \A j \in 1..Len(sh) : sh[j].title = title => i <= j]

MaxWidth(values) ==
    IF values = <<>> THEN 0
    ELSE LET w == {Len(values[i]) : i \in 1..Len(values)}
         IN  CHOOSE n \in w : \A m \in w : m <= n

\* worksheet.get_all_values(): the rows, each padded with '' to the width
\* of the widest row
GetAllValues(ws) ==
    LET width == MaxWidth(ws.values)
    IN  [i \in 1..Len(ws.values) |->
            [j \in 1..width |->
                IF j <= Len(ws.values[i]) THEN ws.values[i][j] ELSE <<>>]]

\* get_data: the table as a DataFrame, an empty one (<<>>) on any failure
GetData(sh, client, worksheet_name, ok) ==
    IF ~client \/ ~ok \/ ~HasWorksheet(sh, worksheet_name) THEN <<>>
    ELSE GetAllValues(Worksheet(sh, worksheet_name))

\* get_worksheets: the worksheet titles, [] on any failure
GetWorksheets(sh, client, ok) ==
    IF ~client \/ ~ok THEN <<>>
    ELSE [i \in 1..Len(sh) |-> sh[i].title]

IsSectionSheet(ws) == StartsWith(ws, W_SectionPrefix)

\* A faulty variant of Extended: the orders of the table replace the orders so far.
ExtendedByAssignment(all_orders, df) ==
    IF ~DfEmpty(df) THEN ProcessOrdersDataframe(df)
    ELSE all_orders

\* all_orders.extend(process_orders_dataframe(df)) unless df.empty
Extended(all_orders, df) ==
    IF ~DfEmpty(df) THEN all_orders \o ProcessOrdersDataframe(df)
    ELSE all_orders

RECURSIVE SectionOrders(_, _, _, _, _, _)
\* The loop over section_sheets: j is the index of the next section,
\* failed the set of remote calls of this invocation that fail (call 0 is
\* the read of "Orders", call 1 get_worksheets, call 1 + j the read of the
\* j-th section sheet).
SectionOrders(sh, client, failed, section_sheets, j, all_orders) ==
    IF j > Len(section_sheets) THEN all_orders
    ELSE SectionOrders(sh, client, failed, section_sheets, j + 1,
                       Extended(all_orders,
                                GetData(sh, client, section_sheets[j],
                                        (1 + j) \notin failed)))

GetAllOrders(sh, client, failed) ==
    SectionOrders(sh, client, failed,
                  SelectSeq(GetWorksheets(sh, client, 1 \notin failed),
                            IsSectionSheet),
                  1,
                  Extended(<<>>, GetData(sh, client, W_Orders, 0 \notin failed)))

RECURSIVE GroupExhibitorsCountsFirstTwice(_, _)
\* A faulty variant of GroupExhibitors: a new exhibitor starts with
\* total_orders 1 and the order is counted again.
GroupExhibitorsCountsFirstTwice(orders, exhibitors) ==
    IF orders = <<>> THEN exhibitors
    ELSE LET order == Head(orders)
             name  == order.exhibitor_name
             known == \E i \in 1..Len(exhibitors) : exhibitors[i].name = name
             with  == IF known THEN exhibitors
                      ELSE Append(exhibitors,
                                  [name |-> name, booth |-> order.booth_number,
                                   total_orders |-> 1, delivered_orders |-> 0])
             next  == [i \in 1..Len(with) |->
                         IF with[i].name # name THEN with[i]
                         ELSE [with[i] EXCEPT
                                 !.total_orders = @ + 1,
                                 !.delivered_orders =
                                    IF order.status = "delivered"
                                    THEN @ + 1 ELSE @]]
         IN  GroupExhibitorsCountsFirstTwice(Tail(orders), next)

RECURSIVE GroupExhibitorsLastBooth(_, _)
\* A faulty variant of GroupExhibitors: the booth of the latest order of a
\* name replaces the booth stored for it.
GroupExhibitorsLastBooth(orders, exhibitors) ==
    IF orders = <<>> THEN exhibitors
    ELSE LET order == Head(orders)
             name  == order.exhibitor_name
             known == \E i \in 1..Len(exhibitors) : exhibitors[i].name = name
             with  == IF known THEN exhibitors
                      ELSE Append(exhibitors,
                                  [name |-> name, booth |-> order.booth_number,
                                   total_orders |-> 0, delivered_orders |-> 0])
             next  == [i \in 1..Len(with) |->
                         IF with[i].name # name THEN with[i]
                         ELSE [with[i] EXCEPT
                                 !.booth = order.booth_number,
                                 !.total_orders = @ + 1,
                                 !.delivered_orders =
                                    IF order.status = "delivered"
                                    THEN @ + 1 ELSE @]]
         IN  GroupExhibitorsLastBooth(Tail(orders), next)

RECURSIVE GroupExhibitors(_, _)
\* The grouping loop: exhibitors is the dict built so far, as the sequence
\* of its values in insertion order.
GroupExhibitors(orders, exhibitors) ==
    IF orders = <<>> THEN exhibitors
    ELSE LET order == Head(orders)
             name  == order.exhibitor_name
             known == \E i \in 1..Len(exhibitors) : exhibitors[i].name = name
             with  == IF known THEN exhibitors
                      ELSE Append(exhibitors,
                                  [name |-> name, booth |-> order.booth_number,
                                   total_orders |-> 0, delivered_orders |-> 0])
             next  == [i \in 1..Len(with) |->
                         IF with[i].name # name THEN with[i]
                         ELSE [with[i] EXCEPT
                                 !.total_orders = @ + 1,
                                 !.delivered_orders =
                                    IF order.status = "delivered"
                                    THEN @ + 1 ELSE @]]
         IN  GroupExhibitors(Tail(orders), next)

\* GroupExhibitors(<<>>, <<>>) is the [] returned for "not all_orders".
GetAllExhibitors(sh, client, failed) ==
    GroupExhibitors(GetAllOrders(sh, client, failed), <<>>)

\* A faulty variant of GetOrdersForExhibitor: the name is matched as a
\* prefix.
GetOrdersForExhibitorByPrefix(sh, client, failed, exhibitor_name) ==
    LET Mine(order) == StartsWith(Lower(order.exhibitor_name),
                                  Lower(exhibitor_name))
    IN  SelectSeq(GetAllOrders(sh, client, failed), Mine)

GetOrdersForExhibitor(sh, client, failed, exhibitor_name) ==
    LET Mine(order) == Lower(order.exhibitor_name) = Lower(exhibitor_name)
    IN  SelectSeq(GetAllOrders(sh, client, failed), Mine)

(***************************************************************************)
(* get_inventory                                                           *)
(***************************************************************************)
I_Items == <<"I", "t", "e", "m", "s">>

I_LoadList == <<"L", "o", "a", "d", " ", "L", "i", "s", "t">>

I_PullList == <<"P", "u", "l", "l", " ", "L", "i", "s", "t">>

I_Starting == <<"S", "t", "a", "r", "t", "i", "n", "g", " ", "Q", "u", "a", "n", "t", "i", "t", "y">>

I_Ordered == <<"O", "r", "d", "e", "r", "e", "d", " ", "i", "t", "e", "m", "s">>

I_Damaged == <<"D", "a", "m", "a", "g", "e", "d", " ", "I", "t", "e", "m", "s">>

I_Available == <<"A", "v", "a", "i", "l", "a", "b", "l", "e", " ", "Q", "u", "a", "n", "t", "i", "t", "y">>

I_Requested == <<"R", "e", "q", "u", "e", "s", "t", "e", "d", " ", "t", "o", " ", "t", "h", "e", " ", "W", "a", "r", "e", "h", "o", "u", "s", "e">>

I_RequestedAt == <<"R", "e", "q", "u", "e", "s", "t", "e", "d", " ", "D", "a", "t", "e", " ", "a", "n", "d", " ", "T", "i", "m", "e">>

\* The item dictionary of a row; the four counters are results of
\* _safe_int, one of which raising leaves the loop.
InventoryItem(columns, row, starting, ordered, damaged, available) ==
    IF starting.exc \/ ordered.exc \/ damaged.exc \/ available.exc
    THEN [kind |-> "raise"]
    ELSE [kind |-> "item",
          item |->
            [item                   |-> Strip(RowGet(columns, row, I_Items, <<>>)),
             load_list              |-> Strip(RowGet(columns, row, I_LoadList, <<>>)),
             pull_list              |-> Strip(RowGet(columns, row, I_PullList, <<>>)),
             starting_quantity      |-> starting.val,
             ordered_items          |-> ordered.val,
             damaged_items          |-> damaged.val,
             available_quantity     |-> available.val,
             requested_to_warehouse |-> Strip(RowGet(columns, row, I_Requested, <<>>)),
             requested_date_time    |-> Strip(RowGet(columns, row, I_RequestedAt, <<>>))]]

InventoryRow(columns, row) ==
    InventoryItem(columns, row,
                  SafeInt(RowGet(columns, row, I_Starting, <<"0">>), 1),
                  SafeInt(RowGet(columns, row, I_Ordered, <<"0">>), 1),
                  SafeInt(RowGet(columns, row, I_Damaged, <<"0">>), 1),
                  SafeInt(RowGet(columns, row, I_Available, <<"0">>), 1))

RECURSIVE InventoryRows(_, _, _)

\* The loop after the iteration on the first of rows returned r
AfterInventoryRow(columns, rows, items, r) ==
    IF r.kind = "raise" THEN [exc |-> TRUE, items |-> items]
    ELSE InventoryRows(columns, Tail(rows), Append(items, r.item))

\* The loop over inventory_df.iterrows()
InventoryRows(columns, rows, items) ==
    IF rows = <<>> THEN [exc |-> FALSE, items |-> items]
    ELSE AfterInventoryRow(columns, rows, items,
                           InventoryRow(columns, Head(rows)))

\* The except branch returns [].
ItemsOrNone(r) == IF r.exc THEN <<>> ELSE r.items

\* get_inventory on the table inventory_df that get_data returned
InventoryOf(inventory_df) ==
    IF DfEmpty(inventory_df) THEN <<>>
    ELSE ItemsOrNone(InventoryRows(Columns(inventory_df), Tail(inventory_df),
                                   <<>>))

GetInventory(sh, client, ok) == InventoryOf(GetData(sh, client, W_Inventory, ok))

(***************************************************************************)
(* The adapter's writers                                                   *)
(*                                                                         *)
(* A writer returns [val, sheet]: the boolean it returns and the           *)
(* spreadsheet it leaves.  failed is the set of its remote calls that      *)
(* raise; a remote call that raises changes nothing.  The grid of a        *)
(* worksheet has blank rows below its last row of values, so a cell below  *)
(* that row can be written.                                                *)
(***************************************************************************)
Max(a, b) == IF a >= b THEN a ELSE b

\* The spreadsheet with the values of its first worksheet titled title
\* replaced
WithValues(sh, title, values) ==
    [n \in 1..Len(sh) |->
        IF sh[n] = Worksheet(sh, title)
        THEN [title |-> title, values |-> values]
        ELSE sh[n]]

\* The row with the text of column c replaced, padded with '' up to c
RowWithCell(row, c, value) ==
    [j \in 1..Max(Len(row), c) |->
        IF j = c THEN value
        ELSE IF j <= Len(row) THEN row[j] ELSE <<>>]

\* ws.update_cell(r, c, value) on the worksheet titled title
UpdateCell(sh, title, r, c, value) ==
    WithValues(sh, title,
        [i \in 1..Max(Len(Worksheet(sh, title).values), r) |->
            IF i = r
            THEN RowWithCell(IF i <= Len(Worksheet(sh, title).values)
                             THEN Worksheet(sh, title).values[i] ELSE <<>>,
                             c, value)
            ELSE IF i <= Len(Worksheet(sh, title).values)
            THEN Worksheet(sh, title).values[i]
            ELSE <<>>])

\* ws.append_row(row_data): the row goes below the last row of values
AppendRow(sh, title, row_data) ==
    WithValues(sh, title, Append(Worksheet(sh, title).values, row_data))

\* ws.delete_rows(r): the rows below move up
DeleteRows(sh, title, r) ==
    WithValues(sh, title,
        [i \in 1..(Len(Worksheet(sh, title).values) - 1) |->
            IF i < r THEN Worksheet(sh, title).values[i]
            ELSE Worksheet(sh, title).values[i + 1]])

\* The last column whose stripped header is name, 0 for None
LastColumn(headers, name) ==
    IF \E i \in 1..Len(headers) : Strip(headers[i]) = name
    THEN CHOOSE i \in 1..Len(headers) :
            /\ Strip(headers[i]) = name
            /\ \A j \in 1..Len(headers) : Strip(headers[j]) = name => j <= i
    ELSE 0

\* The condition of update_order_status on one row: "match", "nomatch", or
\* "raise" for the IndexError of a row too short for the column compared.
\* width_needed is max(status_col, user_col or 0), counted from 0.
UpdateRowTest(row, width_needed, booth_num, item_name, color) ==
    IF ~(Len(row) > width_needed) THEN "nomatch"
    ELSE IF Len(row) < 1 THEN "raise"
    ELSE IF Strip(row[1]) # Strip(booth_num) THEN "nomatch"
    ELSE IF Len(row) < 4 THEN "raise"
    ELSE IF Strip(row[4]) # Strip(item_name) THEN "nomatch"
    ELSE IF Len(row) < 5 THEN "raise"
    ELSE IF Strip(row[5]) # Strip(color) THEN "nomatch"
    ELSE "match"

\* A faulty variant of FirstHit: the rows after the header are numbered
\* from 1, not from 2.
FirstHitCountingFromOne(data, width_needed, booth_num, item_name, color) ==
    IF \E i \in 2..Len(data) :
          UpdateRowTest(data[i], width_needed, booth_num, item_name, color)
             # "nomatch"
    THEN (CHOOSE i \in 2..Len(data) :
            /\ UpdateRowTest(data[i], width_needed, booth_num, item_name, color)
                  # "nomatch"
            /\ \A j \in 2..(i - 1) :
                  UpdateRowTest(data[j], width_needed, booth_num, item_name,
                                color) = "nomatch") - 1
    ELSE 0

\* The sheet row number of the first row after the header on which the
\* test does not answer "nomatch", 0 when there is none
FirstHit(data, width_needed, booth_num, item_name, color) ==
    IF \E i \in 2..Len(data) :
          UpdateRowTest(data[i], width_needed, booth_num, item_name, color)
             # "nomatch"
    THEN CHOOSE i \in 2..Len(data) :
            /\ UpdateRowTest(data[i], width_needed, booth_num, item_name, color)
                  # "nomatch"
            /\ \A j \in 2..(i - 1) :
                  UpdateRowTest(data[j], width_needed, booth_num, item_name,
                                color) = "nomatch"
    ELSE 0

\* A faulty variant of WriteUser: a failed write of the user cell is
\* ignored and the call reports success.
WriteUserIgnoringFailure(sh, worksheet, i, user_col, user, failed) ==
    IF user_col = 0 THEN [val |-> TRUE, sheet |-> sh]
    ELSE IF 4 \in failed THEN [val |-> TRUE, sheet |-> sh]
    ELSE [val |-> TRUE, sheet |-> UpdateCell(sh, worksheet, i, user_col, user)]

\* update_order_status after the status cell was written: the user cell
\* (remote call 4) when the header has a User column
WriteUser(sh, worksheet, i, user_col, user, failed) ==
    IF user_col = 0 THEN [val |-> TRUE, sheet |-> sh]
    ELSE IF 4 \in failed THEN [val |-> FALSE, sheet |-> sh]
    ELSE [val |-> TRUE, sheet |-> UpdateCell(sh, worksheet, i, user_col, user)]

\* A faulty variant of WriteCells: a key that no row matches is reported
\* as updated.
WriteCellsReportingSuccess(sh, worksheet, data, i, status_col, user_col, status, user, failed) ==
    IF i = 0 THEN [val |-> TRUE, sheet |-> sh]
    ELSE IF Len(data[i]) < 5 THEN [val |-> FALSE, sheet |-> sh]
    ELSE IF 3 \in failed THEN [val |-> FALSE, sheet |-> sh]
    ELSE WriteUser(UpdateCell(sh, worksheet, i, status_col, status),
                   worksheet, i, user_col, user, failed)

\* A faulty variant of WriteCells: every matching row is written, not
\* the first only.
WriteCellsOfEveryMatch(sh, worksheet, data, i, status_col, user_col, status, user, failed) ==
    IF i = 0 THEN [val |-> FALSE, sheet |-> sh]
    ELSE [val |-> TRUE,
          sheet |-> WithValues(sh, worksheet,
             [r \in 1..Len(data) |->
                IF r >= 2 /\ Len(data[r]) >= 5
                   /\ Strip(data[r][1]) = Strip(data[i][1])
                   /\ Strip(data[r][4]) = Strip(data[i][4])
                   /\ Strip(data[r][5]) = Strip(data[i][5])
                THEN RowWithCell(data[r], status_col, status)
                ELSE data[r]])]

\* update_order_status from the row found on: i is the sheet row number of
\* the first row that matched or raised, 0 when the loop ended without one.
\* A row that matched has five cells or more, a shorter one raised.  Remote
\* call 3 writes the status cell.
WriteCells(sh, worksheet, data, i, status_col, user_col, status, user, failed) ==
    IF i = 0 THEN [val |-> FALSE, sheet |-> sh]
    ELSE IF Len(data[i]) < 5 THEN [val |-> FALSE, sheet |-> sh]
    ELSE IF 3 \in failed THEN [val |-> FALSE, sheet |-> sh]
    ELSE WriteUser(UpdateCell(sh, worksheet, i, status_col, status),
                   worksheet, i, user_col, user, failed)

\* update_order_status once data = ws.get_all_values() is read
UpdateInData(sh, worksheet, data, status_col, user_col, booth_num, item_name, color, status, user, failed) ==
    IF data = <<>> \/ status_col = 0 THEN [val |-> FALSE, sheet |-> sh]
    ELSE WriteCells(sh, worksheet, data,
                    FirstHit(data, Max(status_col, user_col) - 1,
                             booth_num, item_name, color),
                    status_col, user_col, status, user, failed)

\* headers = data[0], [] for a table without rows
Headers(data) == IF data = <<>> THEN <<>> ELSE data[1]

\* Remote calls: 0 open_by_key, 1 worksheet, 2 get_all_values, 3 and 4 the
\* two update_cell
UpdateOrderStatus(sh, client, worksheet, booth_num, item_name, color, status, user, failed) ==
    IF ~client \/ 0 \in failed \/ 1 \in failed \/ ~HasWorksheet(sh, worksheet)
       \/ 2 \in failed
    THEN [val |-> FALSE, sheet |-> sh]
    ELSE UpdateInData(sh, worksheet, GetAllValues(Worksheet(sh, worksheet)),
                      LastColumn(Headers(GetAllValues(Worksheet(sh, worksheet))),
                                 H_Status),
                      LastColumn(Headers(GetAllValues(Worksheet(sh, worksheet))),
                                 H_User),
                      booth_num, item_name, color, status, user, failed)

\* order_data.get(key, default)
DictGet(order_data, key, default) ==
    IF key \in DOMAIN order_data THEN order_data[key] ELSE default

\* Two decimal digits of n < 100
TwoDigits(n) == <<Digits[(n \div 10) + 1], Digits[(n % 10) + 1]>>

\* The civil date of day z, counted from 0000-03-01: year, month, day
CivilOfEra(era, doe, yoe) ==
    LET doy == doe - (365 * yoe + (yoe \div 4) - (yoe \div 100))
        mp  == (5 * doy + 2) \div 153
        m   == IF mp < 10 THEN mp + 3 ELSE mp - 9
    IN  [y |-> yoe + era * 400 + (IF m <= 2 THEN 1 ELSE 0),
         m |-> m,
         d |-> doy - ((153 * mp + 2) \div 5) + 1]

CivilOfDay(doe, era) ==
    CivilOfEra(era, doe,
               (doe - (doe \div 1460) + (doe \div 36524) - (doe \div 146096))
                   \div 365)

\* The date of the clock reading t (seconds since 1970-01-01 00:00)
Civil(t) ==
    CivilOfDay(((t \div 86400) + 719468) % 146097,
               ((t \div 86400) + 719468) \div 146097)

\* now.strftime("%m/%d/%Y")
StrfDate(t) ==
    TwoDigits(Civil(t).m) \o <<"/">> \o TwoDigits(Civil(t).d) \o <<"/">>
        \o IntStr(Civil(t).y)

\* The hour of the 12-hour clock
Hour12(h) == IF h % 12 = 0 THEN 12 ELSE h % 12

\* now.strftime("%I:%M:%S %p")
StrfTime(t) ==
    TwoDigits(Hour12((t % 86400) \div 3600)) \o <<":">>
        \o TwoDigits(((t % 86400) % 3600) \div 60) \o <<":">>
        \o TwoDigits(t % 60) \o <<" ">>
        \o (IF (t % 86400) \div 3600 < 12 THEN <<"A", "M">> ELSE <<"P", "M">>)

D_InProcess == T_InProcess

D_NewOrder == <<"N", "e", "w", " ", "O", "r", "d", "e", "r">>

\* A faulty variant of RowData: the date and hour the caller supplied are
\* used when there are any.
RowDataWithCallerDate(order_data, t) ==
    <<DictGet(order_data, "Booth #", <<>>),
      DictGet(order_data, "Section", <<>>),
      DictGet(order_data, "Exhibitor Name", <<>>),
      DictGet(order_data, "Item", <<>>),
      DictGet(order_data, "Color", <<>>),
      DictGet(order_data, "Quantity", IntStr(1)),
      DictGet(order_data, "Date", StrfDate(t)),
      DictGet(order_data, "Hour", StrfTime(t)),
      DictGet(order_data, "Status", D_InProcess),
      DictGet(order_data, "Type", D_NewOrder),
      DictGet(order_data, "Boomers Quantity", IntStr(0)),
      DictGet(order_data, "Comments", <<>>),
      DictGet(order_data, "User", <<>>)>>

\* row_data of add_order at clock reading t
RowData(order_data, t) ==
    <<DictGet(order_data, "Booth #", <<>>),
      DictGet(order_data, "Section", <<>>),
      DictGet(order_data, "Exhibitor Name", <<>>),
      DictGet(order_data, "Item", <<>>),
      DictGet(order_data, "Color", <<>>),
      DictGet(order_data, "Quantity", IntStr(1)),
      StrfDate(t),
      StrfTime(t),
      DictGet(order_data, "Status", D_InProcess),
      DictGet(order_data, "Type", D_NewOrder),
      DictGet(order_data, "Boomers Quantity", IntStr(0)),
      DictGet(order_data, "Comments", <<>>),
      DictGet(order_data, "User", <<>>)>>

\* Remote calls: 0 open_by_key, 1 worksheet, 2 append_row
AddOrder(sh, client, worksheet, order_data, t, failed) ==
    IF ~client \/ 0 \in failed \/ 1 \in failed \/ ~HasWorksheet(sh, worksheet)
       \/ 2 \in failed
    THEN [val |-> FALSE, sheet |-> sh]
    ELSE [val |-> TRUE, sheet |-> AppendRow(sh, worksheet, RowData(order_data, t))]

\* The condition of delete_order on one row
DeleteRowTest(row, booth_num, item_name, color) ==
    /\ Len(row) >= 5
    /\ Strip(row[1]) = Strip(booth_num)
    /\ Strip(row[4]) = Strip(item_name)
    /\ Strip(row[5]) = Strip(color)

\* The sheet row number of the first row after the header that passes the
\* test, 0 when there is none
FirstToDelete(data, booth_num, item_name, color) ==
    IF \E i \in 2..Len(data) : DeleteRowTest(data[i], booth_num, item_name, color)
    THEN CHOOSE i \in 2..Len(data) :
            /\ DeleteRowTest(data[i], booth_num, item_name, color)
            /\ \A j \in 2..(i - 1) :
                  ~DeleteRowTest(data[j], booth_num, item_name, color)
    ELSE 0

\* A faulty variant of WorksheetsToTry: "Orders" is tried before the
\* section.
WorksheetsToTryPrimaryFirst(section) ==
    IF section # <<>> THEN <<W_Orders, section>> ELSE <<W_Orders>>

\* worksheets_to_try of delete_order
WorksheetsToTry(section) ==
    IF section # <<>> THEN <<section, W_Orders>> ELSE <<W_Orders>>

RECURSIVE DeleteFrom(_, _, _, _, _, _, _)
\* The loop of delete_order from the k-th worksheet to try on.  Remote call
\* 2k - 1 reads the k-th worksheet (worksheet and get_all_values), remote
\* call 2k deletes the row found in it; either raising, the loop continues
\* with the next worksheet.
DeleteFrom(sh, tables, k, booth_num, item_name, color, failed) ==
    IF k > Len(tables) THEN [val |-> FALSE, sheet |-> sh]
    ELSE IF \/ (2 * k - 1) \in failed
            \/ ~HasWorksheet(sh, tables[k])
            \/ FirstToDelete(GetAllValues(Worksheet(sh, tables[k])),
                             booth_num, item_name, color) = 0
            \/ (2 * k) \in failed
    THEN DeleteFrom(sh, tables, k + 1, booth_num, item_name, color, failed)
    ELSE [val |-> TRUE,
          sheet |-> DeleteRows(sh, tables[k],
                       FirstToDelete(GetAllValues(Worksheet(sh, tables[k])),
                                     booth_num, item_name, color))]

\* Remote call 0 is open_by_key.
DeleteOrder(sh, client, booth_num, item_name, color, section, failed) ==
    IF ~client \/ 0 \in failed THEN [val |-> FALSE, sheet |-> sh]
    ELSE DeleteFrom(sh, WorksheetsToTry(section), 1, booth_num, item_name,
                    color, failed)

(***************************************************************************)
(* app.py: the cache and the cached loaders                                *)
(*                                                                         *)
(* Python values that reach the cache carry their type: None, a list or a  *)
(* dict.  Time is the reading of datetime.now() in seconds.                *)
(***************************************************************************)
CACHE_DURATION == 30

PyNone == [kind |-> "None"]

PyList(items) == [kind |-> "list", v |-> items]

PyDict(fields) == [kind |-> "dict", v |-> fields]

\* bool(x) of a cached value: None, [] and {} are false
Truthy(x) == x.kind # "None" /\ ~(x.kind = "list" /\ x.v = <<>>)

K_ORDERS == [name |-> "new_sheet_orders", arg |-> <<>>]

K_EXHIBITORS == [name |-> "new_sheet_exhibitors", arg |-> <<>>]

\* f"new_sheet_exhibitor_{exhibitor_name}"
K_EXHIBITOR(exhibitor_name) ==
    [name |-> "new_sheet_exhibitor_", arg |-> exhibitor_name]

EmptyCache == [k \in {} |-> PyNone]

\* A faulty variant of GetFromCache: an entry of age CACHE_DURATION still counts as fresh.
GetFromCacheInclusive(cache, t, key, allow_cache) ==
    IF ~allow_cache THEN PyNone
    ELSE IF key \in DOMAIN cache
            /\ t - cache[key].timestamp <= CACHE_DURATION
    THEN cache[key].data
    ELSE PyNone

\* A faulty variant of GetFromCache: allow_cache is not consulted.
GetFromCacheIgnoresFlag(cache, t, key, allow_cache) ==
    IF key \in DOMAIN cache
       /\ t - cache[key].timestamp < CACHE_DURATION
    THEN cache[key].data
    ELSE PyNone

\* A faulty variant of GetFromCache: the age test is reversed, an entry
\* is used once it is older than CACHE_DURATION.
GetFromCacheReversed(cache, t, key, allow_cache) ==
    IF ~allow_cache THEN PyNone
    ELSE IF key \in DOMAIN cache
            /\ t - cache[key].timestamp > CACHE_DURATION
    THEN cache[key].data
    ELSE PyNone

GetFromCache(cache, t, key, allow_cache) ==
    IF ~allow_cache THEN PyNone
    ELSE IF key \in DOMAIN cache
            /\ t - cache[key].timestamp < CACHE_DURATION
    THEN cache[key].data
    ELSE PyNone

\* A faulty variant of SetCache: an existing entry is kept (CACHE.setdefault).
SetCacheKeepsOld(cache, t, key, data) ==
    [k \in DOMAIN cache \cup {key} |->
        IF k \in DOMAIN cache THEN cache[k]
        ELSE [data |-> data, timestamp |-> t]]

SetCache(cache, t, key, data) ==
    [k \in DOMAIN cache \cup {key} |->
        IF k = key THEN [data |-> data, timestamp |-> t] ELSE cache[k]]

\* The calendar day of a clock reading
DateOf(t) == t \div 86400

\* Texts of the mock order and of the fallback exhibitor
M_Id ==
    <<"N", "E", "W", "-", "S", "H", "E", "E", "T", "-", "0", "0", "1">>

M_Booth ==
    <<"N", "-", "0", "0", "1">>

M_Exhibitor ==
    <<"N", "e", "w", " ", "S", "h", "e", "e", "t", " ", "T", "e", "s", "t",
      " ", "C", "o", "m", "p", "a", "n", "y">>

M_Item ==
    <<"T", "e", "s", "t", " ", "I", "t", "e", "m", " ", "f", "r", "o", "m",
      " ", "N", "e", "w", " ", "S", "h", "e", "e", "t">>

M_Description ==
    <<"T", "h", "i", "s", " ", "d", "a", "t", "a", " ", "c", "o", "m", "e",
      "s", " ", "f", "r", "o", "m", " ", "t", "h", "e", " ", "N", "E", "W",
      " ", "G", "o", "o", "g", "l", "e", " ", "S", "h", "e", "e", "t">>

M_Color ==
    <<"B", "l", "u", "e">>

M_Comments ==
    <<"C", "o", "n", "n", "e", "c", "t", "e", "d", " ", "t", "o", " ", "N",
      "E", "W", " ", "G", "o", "o", "g", "l", "e", " ", "S", "h", "e", "e",
      "t">>

M_Section ==
    <<"N", "e", "w", " ", "S", "e", "c", "t", "i", "o", "n">>

M_FallbackName ==
    <<"T", "e", "s", "t", " ", "C", "o", "m", "p", "a", "n", "y", " ", "(",
      "N", "e", "w", " ", "S", "h", "e", "e", "t", ")">>

GetSimpleMockOrders(t) ==
    <<[id             |-> M_Id,
       booth_number   |-> M_Booth,
       exhibitor_name |-> M_Exhibitor,
       item           |-> M_Item,
       description    |-> M_Description,
       color          |-> M_Color,
       quantity       |-> 1,
       status         |-> "in-process",
       order_date     |-> DateOf(t),
       comments       |-> M_Comments,
       section        |-> M_Section,
       data_source    |-> "NEW_SHEET_DIRECT_API"]>>

ExhibitorsFallback ==
    <<[name |-> M_FallbackName, booth |-> M_Booth,
       total_orders |-> 1, delivered_orders |-> 0]>>

(***************************************************************************)
(* load_orders_from_new_sheet, as a function of the cache, of the clock    *)
(* reading t at the request, of the time d the adapter call takes, of      *)
(* whether gs_manager exists (manager) and of what get_all_orders returns  *)
(* (all_orders).  The result holds the new cache, the value returned,      *)
(* whether the adapter was invoked, the set_cache calls made and the clock *)
(* reading at the end.  get_all_orders catches every exception, so the     *)
(* except branch of the loader is never taken.                             *)
(***************************************************************************)
Loaded(cache, t, key, data, invoked) ==
    [cache   |-> SetCache(cache, t, key, data),
     val     |-> data,
     invoked |-> invoked,
     sets    |-> <<[key |-> key, data |-> data, at |-> t]>>,
     t       |-> t]

\* A faulty variant of LoadOrdersFromNewSheet: the fresh orders are returned without
\* being stored.
LoadOrdersWithoutStore(cache, t, d, force_refresh, manager, all_orders) ==
    LET cached_data == IF force_refresh THEN PyNone
                       ELSE GetFromCache(cache, t, K_ORDERS, TRUE)
    IN  IF ~force_refresh /\ Truthy(cached_data)
        THEN [cache |-> cache, val |-> cached_data, invoked |-> FALSE,
              sets |-> <<>>, t |-> t]
        ELSE IF ~manager
        THEN Loaded(cache, t, K_ORDERS, PyList(GetSimpleMockOrders(t)), FALSE)
        ELSE IF all_orders # <<>>
        THEN [cache |-> cache, val |-> PyList(all_orders), invoked |-> TRUE,
              sets |-> <<>>, t |-> t + d]
        ELSE Loaded(cache, t + d, K_ORDERS,
                    PyList(GetSimpleMockOrders(t + d)), TRUE)

LoadOrdersFromNewSheet(cache, t, d, force_refresh, manager, all_orders) ==
    LET cached_data == IF force_refresh THEN PyNone
                       ELSE GetFromCache(cache, t, K_ORDERS, TRUE)
    IN  IF ~force_refresh /\ Truthy(cached_data)
        THEN [cache |-> cache, val |-> cached_data, invoked |-> FALSE,
              sets |-> <<>>, t |-> t]
        ELSE IF ~manager
        THEN Loaded(cache, t, K_ORDERS, PyList(GetSimpleMockOrders(t)), FALSE)
        ELSE IF all_orders # <<>>
        THEN Loaded(cache, t + d, K_ORDERS, PyList(all_orders), TRUE)
        ELSE Loaded(cache, t + d, K_ORDERS,
                    PyList(GetSimpleMockOrders(t + d)), TRUE)

\* load_exhibitors_from_new_sheet, likewise
LoadExhibitorsFromNewSheet(cache, t, d, force_refresh, manager, exhibitors) ==
    LET cached_data == IF force_refresh THEN PyNone
                       ELSE GetFromCache(cache, t, K_EXHIBITORS, TRUE)
    IN  IF ~force_refresh /\ Truthy(cached_data)
        THEN [cache |-> cache, val |-> cached_data, invoked |-> FALSE,
              sets |-> <<>>, t |-> t]
        ELSE IF ~manager
        THEN Loaded(cache, t, K_EXHIBITORS, PyList(ExhibitorsFallback), FALSE)
        ELSE IF exhibitors # <<>>
        THEN Loaded(cache, t + d, K_EXHIBITORS, PyList(exhibitors), TRUE)
        ELSE Loaded(cache, t + d, K_EXHIBITORS,
                    PyList(ExhibitorsFallback), TRUE)

\* A faulty variant of ClearedCache: only the orders entry is dropped.
ClearedOrdersOnly(cache) == [k \in DOMAIN cache \ {K_ORDERS} |-> cache[k]]

\* CACHE = {} of clear_cache and clear_cache_and_refresh
ClearedCache(cache) == EmptyCache

(***************************************************************************)
(* State                                                                   *)
(***************************************************************************)
VARIABLES
    CACHE,       \* app.CACHE: key -> [data, timestamp]
    now,         \* the reading of datetime.now(), in seconds
    gs_manager,  \* whether app.gs_manager is a manager (not None)
    gc,          \* whether the manager's client self.gc is initialised
    sheet,       \* the remote spreadsheet
    ret,         \* the last operation: its arguments and what it returned
    written      \* history: key -> the last set_cache since the last clear

vars == <<CACHE, now, gs_manager, gc, sheet, ret, written>>

(***************************************************************************)
(* Bounds and input pools                                                  *)
(***************************************************************************)
\* The clock advances in steps of TickStep seconds up to MaxNow.
TickStep == 15

MaxNow == 45

\* Data rows of the "Orders" table in the adapter specification
MaxRows == 2

\* An adapter call takes no time or one clock step.
CallDurations == {0, TickStep}

\* Remote calls of one get_all_orders that may fail
Calls == 0..2

\* In the cache specification an adapter call has all its remote calls
\* succeed or all fail.
CacheFailures == {{}, Calls}

StdHeader ==
    <<H_Booth, H_Section, H_Exhibitor, H_Item, H_Color, H_Quantity, H_Date,
      H_Hour, H_Status, H_Type, H_Boomers, H_Comments, H_User>>

\* A data row in the column order of StdHeader
MkRow(booth, exhibitor, item, color, quantity, status, boomers) ==
    <<booth, <<>>, exhibitor, item, color, quantity, <<"1", "/", "2">>,
      <<>>, status, <<>>, boomers, <<>>, <<>>>>

W_SectionA == <<"S", "e", "c", "t", "i", "o", "n", " ", "A">>

W_SectionB == <<"S", "e", "c", "t", "i", "o", "n", " ", "B">>

RowA1 == MkRow(<<"1">>, <<"A">>, <<"c">>, <<"r">>, <<"3">>, T_InProcess, <<"2">>)

RowB2 == MkRow(<<"2">>, <<"B">>, <<"t">>, <<"g">>, <<"1">>, T_Delivered, <<>>)

\* The spreadsheets of the cache specification: one order, and one order
\* in "Orders" plus one in a section sheet
CacheSheets ==
    { <<[title |-> W_Orders, values |-> <<StdHeader, RowA1>>]>>,
      <<[title |-> W_Orders, values |-> <<StdHeader, RowA1>>],
        [title |-> W_SectionA, values |-> <<StdHeader, RowB2>>]>> }

\* The keys get_from_cache is called with: the two keys of the loaders and
\* a key of the route /api/orders/exhibitor/<name>.  That route keeps its
\* entries under keys of its own and is not part of the cache
\* specification, so its key is never stored here.
CacheKeys == {K_ORDERS, K_EXHIBITORS, K_EXHIBITOR(<<"a">>)}

(***************************************************************************)
(* Cache specification: the request handlers of app.py, one request at a   *)
(* time                                                                    *)
(***************************************************************************)
\* What the adapter's readers return on the spreadsheets of the cache
\* specification, tabulated by spreadsheet, client and failed calls.
AllOrdersOf ==
    [sh \in CacheSheets |-> [client \in BOOLEAN |-> [failed \in CacheFailures |->
        GetAllOrders(sh, client, failed)]]]

AllExhibitorsOf ==
    [sh \in CacheSheets |-> [client \in BOOLEAN |-> [failed \in CacheFailures |->
        GetAllExhibitors(sh, client, failed)]]]

RECURSIVE Record(_, _)
\* written after the set_cache calls sets
Record(log, sets) ==
    IF sets = <<>> THEN log
    ELSE Record([k \in DOMAIN log \cup {Head(sets).key} |->
                    IF k = Head(sets).key
                    THEN [data |-> Head(sets).data, at |-> Head(sets).at]
                    ELSE log[k]],
                Tail(sets))

Init ==
    /\ CACHE = EmptyCache
    /\ now = 0
    /\ gs_manager \in BOOLEAN
    /\ gc \in BOOLEAN
    /\ gs_manager = FALSE => gc = FALSE
    /\ sheet \in CacheSheets
    /\ ret = [op |-> "start"]
    /\ written = EmptyCache

\* Time passes between requests.
Tick ==
    /\ now + TickStep <= MaxNow
    /\ now' = now + TickStep
    /\ ret' = [op |-> "tick"]
    /\ UNCHANGED <<CACHE, gs_manager, gc, sheet, written>>

\* Somebody edits the spreadsheet.
EditSheet ==
    /\ sheet' \in CacheSheets \ {sheet}
    /\ ret' = [op |-> "edit"]
    /\ UNCHANGED <<CACHE, now, gs_manager, gc, written>>

\* A direct call of get_from_cache(key, allow_cache)
CallGetFromCache ==
    \E key \in CacheKeys, allow_cache \in BOOLEAN :
        /\ ret' = [op |-> "get_from_cache", key |-> key,
                   allow_cache |-> allow_cache, t |-> now,
                   val |-> GetFromCache(CACHE, now, key, allow_cache)]
        /\ UNCHANGED <<CACHE, now, gs_manager, gc, sheet, written>>

\* GET /api/orders
ApiOrders ==
    \E force_refresh \in BOOLEAN, d \in CallDurations, failed \in CacheFailures :
      \E all_orders \in {AllOrdersOf[sheet][gc][failed]} :
        \E r \in {LoadOrdersFromNewSheet(CACHE, now, d, force_refresh,
                                         gs_manager, all_orders)} :
            /\ r.t <= MaxNow
            /\ CACHE' = r.cache
            /\ now' = r.t
            /\ written' = Record(written, r.sets)
            /\ ret' = [op |-> "orders", key |-> K_ORDERS,
                       force_refresh |-> force_refresh, t |-> now,
                       invoked |-> r.invoked,
                       adapter |-> IF r.invoked THEN all_orders ELSE <<>>,
                       val |-> r.val]
            /\ UNCHANGED <<gs_manager, gc, sheet>>

\* GET /api/exhibitors
ApiExhibitors ==
    \E force_refresh \in BOOLEAN, d \in CallDurations, failed \in CacheFailures :
      \E exhibitors \in {AllExhibitorsOf[sheet][gc][failed]} :
        \E r \in {LoadExhibitorsFromNewSheet(CACHE, now, d, force_refresh,
                                             gs_manager, exhibitors)} :
            /\ r.t <= MaxNow
            /\ CACHE' = r.cache
            /\ now' = r.t
            /\ written' = Record(written, r.sets)
            /\ ret' = [op |-> "exhibitors", key |-> K_EXHIBITORS,
                       force_refresh |-> force_refresh, t |-> now,
                       invoked |-> r.invoked,
                       adapter |-> IF r.invoked THEN exhibitors ELSE <<>>,
                       val |-> r.val]
            /\ UNCHANGED <<gs_manager, gc, sheet>>

\* POST /api/clear-cache
ClearCache ==
    /\ CACHE' = ClearedCache(CACHE)
    /\ written' = EmptyCache
    /\ ret' = [op |-> "clear_cache", held |-> DOMAIN CACHE]
    /\ UNCHANGED <<now, gs_manager, gc, sheet>>

\* GET /api/clear-cache-and-refresh: clear, then both loaders with
\* force_refresh=True
ClearCacheAndRefresh ==
    \E d1 \in CallDurations, d2 \in CallDurations,
       failed1 \in CacheFailures, failed2 \in CacheFailures :
      \E r1 \in {LoadOrdersFromNewSheet(ClearedCache(CACHE), now, d1, TRUE,
                                        gs_manager,
                                        AllOrdersOf[sheet][gc][failed1])} :
        \E r2 \in {LoadExhibitorsFromNewSheet(r1.cache, r1.t, d2, TRUE,
                                              gs_manager,
                                              AllExhibitorsOf[sheet][gc][failed2])} :
            /\ r2.t <= MaxNow
            /\ CACHE' = r2.cache
            /\ now' = r2.t
            /\ written' = Record(Record(EmptyCache, r1.sets), r2.sets)
            /\ ret' = [op |-> "clear_cache_and_refresh", t |-> now,
                       fresh_orders |-> r1.val, fresh_exhibitors |-> r2.val]
            /\ UNCHANGED <<gs_manager, gc, sheet>>

Next ==
    \/ Tick
    \/ EditSheet
    \/ CallGetFromCache
    \/ ApiOrders
    \/ ApiExhibitors
    \/ ClearCache
    \/ ClearCacheAndRefresh

Spec == Init /\ [][Next]_vars

(***************************************************************************)
(* Claims about the cache (specification Spec)                             *)
(***************************************************************************)

\* C1: after set_cache(k, v), a get_from_cache(k, allow_cache=true) issued
\* less than 30 seconds later, with no set_cache(k, ...) or clear in
\* between, returns exactly v.  written[k] is the last set_cache(k, v)
\* since the last clear, with the time it was made.
C1_SetThenGet ==
    (/\ ret.op = "get_from_cache"
     /\ ret.allow_cache
     /\ ret.key \in DOMAIN written
     /\ ret.t - written[ret.key].at < 30)
    => ret.val = written[ret.key].data

\* A get that returned the value set 15 seconds earlier
C1_Witness ==
    /\ ret.op = "get_from_cache"
    /\ ret.allow_cache
    /\ ret.key \in DOMAIN written
    /\ ret.t - written[ret.key].at > 0
    /\ ret.t - written[ret.key].at < 30
    /\ ret.val = written[ret.key].data
    /\ ret.val.kind = "list"

\* C2: get_from_cache(k, allow_cache=true) returns absent for an entry of
\* age 30 seconds or more and leaves the cache mapping unchanged: the stale
\* entry stays stored with its timestamp.
C2_StaleIgnoredNotEvicted ==
    [][(/\ ret'.op = "get_from_cache"
        /\ ret'.allow_cache
        /\ ret'.key \in DOMAIN CACHE
        /\ now - CACHE[ret'.key].timestamp >= 30)
       => (ret'.val = PyNone /\ CACHE' = CACHE)]_vars

\* A get that found a stale entry, which is still stored
C2_Witness ==
    /\ ret.op = "get_from_cache"
    /\ ret.allow_cache
    /\ ret.key \in DOMAIN CACHE
    /\ ret.t - CACHE[ret.key].timestamp >= 30
    /\ ret.val = PyNone

\* C3: get_from_cache(k, allow_cache=false) returns absent for every key in
\* every cache state, a fresh stored entry included.
C3_BypassReturnsAbsent ==
    (ret.op = "get_from_cache" /\ ~ret.allow_cache) => ret.val = PyNone

\* A bypassing get of a key whose entry is fresh
C3_Witness ==
    /\ ret.op = "get_from_cache"
    /\ ~ret.allow_cache
    /\ ret.key \in DOMAIN CACHE
    /\ ret.t - CACHE[ret.key].timestamp < 30
    /\ ret.val = PyNone

\* C4: after the clear the cache mapping is empty whatever it held, and
\* get_from_cache(k, allow_cache=true) returns absent for every key k until
\* the next set_cache(k, ...): the keys stored are among those set since the
\* last clear.
C4_ClearEmpties ==
    /\ ret.op = "clear_cache" => CACHE = EmptyCache
    /\ DOMAIN CACHE \subseteq DOMAIN written
    /\ (/\ ret.op = "get_from_cache"
        /\ ret.allow_cache
        /\ ret.key \notin DOMAIN written)
       => ret.val = PyNone

\* A clear of a cache that held both loaders' entries
C4_Witness ==
    /\ ret.op = "clear_cache"
    /\ ret.held = {K_ORDERS, K_EXHIBITORS}
    /\ CACHE = EmptyCache

\* The fallback a loader stores when there is no manager or the adapter
\* returned nothing
FallbackOf(key, t) ==
    IF key = K_ORDERS THEN PyList(GetSimpleMockOrders(t))
    ELSE PyList(ExhibitorsFallback)

\* Whether the request of a step finds a fresh entry under its key
FreshHit(key) ==
    /\ key \in DOMAIN CACHE
    /\ now - CACHE[key].timestamp < 30

\* C5 as stated: for an orders or exhibitors read request, on a miss (no
\* entry or a stale one) or on bypass the adapter is invoked and the value
\* it returned is the value stored under the request's key and the value
\* returned; on a fresh hit without bypass the adapter is not invoked.
C5_AdapterValueStored ==
    [][ret'.op \in {"orders", "exhibitors"}
       => IF FreshHit(ret'.key) /\ ~ret'.force_refresh
          THEN ~ret'.invoked
          ELSE /\ ret'.invoked
               /\ ret'.key \in DOMAIN CACHE'
               /\ CACHE'[ret'.key].data = PyList(ret'.adapter)
               /\ ret'.val = PyList(ret'.adapter)]_vars

\* C5 amended: on a fresh hit without bypass the adapter is not invoked and
\* the cached value is returned; on a miss or on bypass the adapter is
\* invoked exactly when a manager exists, and the value stored under the
\* request's key and returned is the adapter's result when that result is
\* not empty, and the loader's fixed fallback otherwise.
C5_AdapterValueOrFallbackStored ==
    [][ret'.op \in {"orders", "exhibitors"}
       => IF FreshHit(ret'.key) /\ ~ret'.force_refresh
          THEN /\ ~ret'.invoked
               /\ ret'.val = CACHE[ret'.key].data
               /\ CACHE' = CACHE
          ELSE /\ ret'.invoked = gs_manager
               /\ ret'.key \in DOMAIN CACHE'
               /\ CACHE'[ret'.key].data = ret'.val
               /\ CACHE'[ret'.key].timestamp = now'
               /\ ret'.val = IF ret'.invoked /\ ret'.adapter # <<>>
                             THEN PyList(ret'.adapter)
                             ELSE FallbackOf(ret'.key, now')]_vars

\* A request without bypass that found a stale entry, invoked the adapter
\* and stored and returned what the adapter returned
C5_Witness ==
    /\ ret.op = "orders"
    /\ ~ret.force_refresh
    /\ ret.t >= 30
    /\ ret.invoked
    /\ ret.adapter # <<>>
    /\ CACHE[K_ORDERS].data = PyList(ret.adapter)
    /\ ret.val = PyList(ret.adapter)

(***************************************************************************)
(* Adapter specification: the readers of DirectGoogleSheetsManager on one  *)
(* spreadsheet.  The readers change nothing, so a behaviour is one call    *)
(* on the spreadsheet it starts with; ret is the call and what it          *)
(* returned.                                                               *)
(***************************************************************************)
RowPadded ==
    MkRow(<<" ", "1", " ">>, <<" ", "a">>, <<"c", " ">>, <<>>,
          <<" ", "4", " ">>, <<" ">> \o T_Received \o <<" ">>, <<"x">>)

RowNegative ==
    MkRow(<<"3">>, <<"C">>, <<"c">>, <<>>, <<"-", "5">>, T_New, <<"0">>)

RowInf ==
    MkRow(<<"4">>, <<"D">>, <<"c">>, <<>>, <<"i", "n", "f">>, T_Cancelled,
          <<"0">>)

RowNoExhibitor ==
    MkRow(<<"5">>, <<" ">>, <<"c">>, <<>>, <<"2">>, T_Delivered, <<"0">>)

RowNoBooth ==
    MkRow(<<>>, <<"A">>, <<"c">>, <<>>, <<"2">>, T_Delivered, <<"0">>)

RowBlank == [i \in 1..Len(StdHeader) |-> <<>>]

RowQtyText ==
    MkRow(<<"6">>, <<"A">>, <<"t">>, <<>>, <<"x">>, <<"?">>,
          <<"2", ".", "7">>)

RowQtyBlank ==
    MkRow(<<"7">>, <<"a">>, <<"t">>, <<>>, <<>>, T_OutForDelivery,
          <<"n", "a", "n">>)

RowC3 == MkRow(<<"9">>, <<"C">>, <<"t">>, <<>>, <<"2">>, T_InRoute, <<"0">>)

RowPool ==
    {RowA1, RowB2, RowPadded, RowNegative, RowInf, RowNoExhibitor,
     RowNoBooth, RowBlank, RowQtyText, RowQtyBlank}

\* The data rows of a pooled "Orders" table: up to MaxRows rows of RowPool
RowLists == UNION {[1..n -> RowPool] : n \in 0..MaxRows}

\* The header with every label padded, as a user may have typed it
HeaderPadded == [i \in 1..Len(StdHeader) |-> <<" ">> \o StdHeader[i] \o <<" ">>]

\* Tables without the column "Booth #" and without the two quantity columns
HeaderNoBooth == Tail(StdHeader)

HeaderNoQuantities ==
    <<H_Booth, H_Exhibitor, H_Item, H_Status>>

OrdersOnly(values) == <<[title |-> W_Orders, values |-> values]>>

\* A primary table with 2 valid rows and 1 row without exhibitor name, and
\* a "Section A" table with 1 valid row
ExampleSheet ==
    <<[title |-> W_Orders,
       values |-> <<StdHeader, RowA1, RowNoExhibitor, RowB2>>],
      [title |-> W_SectionA, values |-> <<StdHeader, RowC3>>]>>

W_sectionC == <<"s", "e", "c", "t", "i", "o", "n", " ", "c">>

\* Worksheet layouts: sections before and after "Orders", a sheet that is
\* no section, the same row in two sheets, no "Orders" sheet, a title that
\* differs from "Section" in case
LayoutSheets ==
    { ExampleSheet,
      <<[title |-> W_SectionB, values |-> <<StdHeader, RowB2>>],
        [title |-> W_Orders, values |-> <<StdHeader, RowA1>>],
        [title |-> W_Inventory, values |-> <<<<H_Item, H_Quantity>>, <<<<"c">>, <<"9">>>>>>],
        [title |-> W_SectionA, values |-> <<StdHeader, RowA1, RowInf>>]>>,
      <<[title |-> W_SectionA, values |-> <<StdHeader, RowC3>>]>>,
      <<[title |-> W_Orders, values |-> <<StdHeader, RowB2>>],
        [title |-> W_sectionC, values |-> <<StdHeader, RowC3>>]>> }

\* Degenerate and differently labelled "Orders" tables
HeaderSheets ==
    { OrdersOnly(<<>>),
      OrdersOnly(<<<<>>>>),
      OrdersOnly(<<HeaderPadded, RowA1, RowPadded>>),
      OrdersOnly(<<HeaderNoBooth, Tail(RowA1)>>),
      OrdersOnly(<<HeaderNoQuantities,
                   <<<<"1">>, <<"A">>, <<"c">>, T_Received>>>>) }

\* Tables with several orders of one exhibitor: under two booth numbers,
\* and under names that differ in case
GroupingSheets ==
    { OrdersOnly(<<StdHeader, RowB2, RowPadded, RowQtyBlank>>),
      OrdersOnly(<<StdHeader, RowA1, RowB2, RowQtyBlank>>) }

SheetPool ==
    {OrdersOnly(<<StdHeader>> \o rows) : rows \in RowLists}
        \cup HeaderSheets \cup LayoutSheets \cup GroupingSheets

\* The texts map_order_status is called with: the keys of its table, the
\* empty text, and texts that differ from a key in case or by a space
StatusPool ==
    {T_Delivered, T_Received, T_OutForDelivery, T_InRoute, T_InProcess,
     T_cancelled, T_Cancelled, T_New, <<>>, Lower(T_Delivered),
     <<" ">> \o T_Delivered, <<"?">>}

\* The remote calls one get_all_orders makes on spreadsheet sh
CallsOn(sh) ==
    0..(1 + Cardinality({i \in 1..Len(sh) : IsSectionSheet(sh[i].title)}))

InitSheet ==
    /\ CACHE = EmptyCache
    /\ now = 0
    /\ gs_manager = TRUE
    /\ gc \in BOOLEAN
    /\ sheet \in SheetPool
    /\ ret = [op |-> "start"]
    /\ written = EmptyCache

\* manager.map_order_status(sheet_status)
CallMapOrderStatus ==
    /\ ret.op = "start"
    /\ \E sheet_status \in StatusPool :
          ret' = [op |-> "map_order_status", sheet_status |-> sheet_status,
                  val |-> MapOrderStatus(sheet_status)]
    /\ UNCHANGED <<CACHE, now, gs_manager, gc, sheet, written>>

\* manager.process_orders_dataframe(df) on the table of one worksheet
CallProcessOrdersDataframe ==
    /\ ret.op = "start"
    /\ \E i \in 1..Len(sheet) :
        \E df \in {GetAllValues(sheet[i])} :
          ret' = [op |-> "process_orders_dataframe", df |-> df,
                  val |-> ProcessOrdersDataframe(df)]
    /\ UNCHANGED <<CACHE, now, gs_manager, gc, sheet, written>>

\* manager.get_all_orders(sheet_id), any of its remote calls failing
CallGetAllOrders ==
    /\ ret.op = "start"
    /\ \E failed \in SUBSET CallsOn(sheet) :
          ret' = [op |-> "get_all_orders", failed |-> failed,
                  val |-> GetAllOrders(sheet, gc, failed)]
    /\ UNCHANGED <<CACHE, now, gs_manager, gc, sheet, written>>

\* The names get_orders_for_exhibitor is asked for
NamePool == {<<"A">>, <<"a">>, <<"A", "b">>, <<>>}

\* manager.get_all_exhibitors(sheet_id); orders is what its call of
\* get_all_orders returned
CallGetAllExhibitors ==
    /\ ret.op = "start"
    /\ \E failed \in SUBSET CallsOn(sheet) :
          ret' = [op |-> "get_all_exhibitors", failed |-> failed,
                  orders |-> GetAllOrders(sheet, gc, failed),
                  val |-> GetAllExhibitors(sheet, gc, failed)]
    /\ UNCHANGED <<CACHE, now, gs_manager, gc, sheet, written>>

\* manager.get_orders_for_exhibitor(sheet_id, exhibitor_name)
CallGetOrdersForExhibitor ==
    /\ ret.op = "start"
    /\ \E failed \in SUBSET CallsOn(sheet), exhibitor_name \in NamePool :
          ret' = [op |-> "get_orders_for_exhibitor", failed |-> failed,
                  exhibitor_name |-> exhibitor_name,
                  orders |-> GetAllOrders(sheet, gc, failed),
                  val |-> GetOrdersForExhibitor(sheet, gc, failed,
                                                exhibitor_name)]
    /\ UNCHANGED <<CACHE, now, gs_manager, gc, sheet, written>>

NextSheet ==
    \/ CallMapOrderStatus
    \/ CallProcessOrdersDataframe
    \/ CallGetAllOrders
    \/ CallGetAllExhibitors
    \/ CallGetOrdersForExhibitor

SpecSheet == InitSheet /\ [][NextSheet]_vars

(***************************************************************************)
(* Writer specification: one call of update_order_status, add_order or     *)
(* delete_order on a spreadsheet, any of its remote calls failing.  ret is *)
(* the call, the spreadsheet it started on (before) and what it returned,  *)
(* sheet the spreadsheet it leaves.                                        *)
(***************************************************************************)
\* Two rows with the same booth, item and color
WriteRowA2 ==
    MkRow(<<"1">>, <<"Z">>, <<"c">>, <<"r">>, <<"5">>, T_New, <<"0">>)

\* The same booth, item and color once trimmed
WriteRowPadded ==
    MkRow(<<" ", "1", " ">>, <<"A">>, <<"c", " ">>, <<" ", "r">>, <<"1">>,
          T_New, <<"0">>)

WriteRowPool == {RowA1, WriteRowA2, WriteRowPadded, RowB2}

WriteRowLists == UNION {[1..n -> WriteRowPool] : n \in 0..MaxRows}

\* At most one row in the section table
SectionRowLists == UNION {[1..n -> WriteRowPool] : n \in 0..1}

HeaderNoStatus ==
    <<H_Booth, H_Section, H_Exhibitor, H_Item, H_Color, H_Quantity, H_User>>

HeaderNoUser ==
    <<H_Booth, H_Section, H_Exhibitor, H_Item, H_Color, H_Quantity, H_Status>>

\* A row of the seven-column tables
ShortRow(last) ==
    <<<<"1">>, <<>>, <<"A">>, <<"c">>, <<"r">>, <<"3">>, last>>

\* Tables without a Status or a User column, with padded labels, with
\* fewer than five columns, without rows, and a spreadsheet without the
\* worksheets asked for
WriteHeaderSheets ==
    { OrdersOnly(<<HeaderNoStatus, ShortRow(<<"v">>)>>),
      OrdersOnly(<<HeaderNoUser, ShortRow(T_New), ShortRow(T_New)>>),
      OrdersOnly(<<HeaderPadded, RowB2, RowA1>>),
      OrdersOnly(<<<<H_Booth, H_Status>>, <<<<"1">>, T_New>>>>),
      OrdersOnly(<<<<H_Booth, H_Status, H_User, H_Item>>,
                   <<<<"1">>, T_New, <<>>, <<"c">>>>>>),
      OrdersOnly(<<>>),
      <<[title |-> W_Inventory, values |-> <<StdHeader, RowA1>>]>> }

WriteSheets ==
    { <<[title |-> W_Orders, values |-> <<StdHeader>> \o rows],
        [title |-> W_SectionA, values |-> <<StdHeader>> \o srows]>> :
          rows \in WriteRowLists, srows \in SectionRowLists }
        \cup WriteHeaderSheets

\* The keys the writers are called with: of RowA1 and its like, the same
\* with spaces around, of RowB2, and a key of no row
KeyPool ==
    { [booth_num |-> <<"1">>, item_name |-> <<"c">>, color |-> <<"r">>],
      [booth_num |-> <<" ", "1">>, item_name |-> <<"c">>,
       color |-> <<"r", " ">>],
      [booth_num |-> <<"2">>, item_name |-> <<"t">>, color |-> <<"g">>],
      [booth_num |-> <<"1">>, item_name |-> <<"t">>, color |-> <<"r">>] }

\* The clock readings of add_order: 1970-01-01 00:00:00 and
\* 2024-02-29 23:59:59
WriteTimes == {0, 1709251199}

\* order_data of add_order: every field, some fields, and a date and hour
\* of the caller's
OrderDataPool ==
    { [k \in {"Booth #", "Section", "Exhibitor Name", "Item", "Color",
              "Quantity", "Status", "Type", "Boomers Quantity", "Comments",
              "User"} |-> <<"v">>],
      [k \in {"Booth #", "Item"} |-> <<"5">>],
      [k \in {"Booth #", "Date", "Hour", "Quantity"} |-> <<"7">>] }

\* At most one remote call of an update_order_status or add_order fails.
UpdateFailures == {{}} \cup {{c} : c \in 0..4}

AddFailures == {{}} \cup {{c} : c \in 0..2}

\* Calls 1 and 2 are on the first worksheet delete_order tries, 3 and 4 on
\* the second.
DeleteFailures == {{}, {2, 4}} \cup {{c} : c \in 0..4}

SectionPool == {<<>>, W_SectionA, W_SectionB}

InitWrite ==
    /\ CACHE = EmptyCache
    /\ now \in WriteTimes
    /\ gs_manager = TRUE
    /\ gc \in BOOLEAN
    /\ sheet \in WriteSheets
    /\ ret = [op |-> "start"]
    /\ written = EmptyCache

\* manager.update_order_status(sheet_id, worksheet, booth_num, item_name,
\* color, status, user)
CallUpdateOrderStatus ==
    /\ ret.op = "start"
    /\ \E worksheet \in {W_Orders, W_SectionA}, key \in KeyPool,
          failed \in UpdateFailures :
        \E r \in {UpdateOrderStatus(sheet, gc, worksheet, key.booth_num,
                                    key.item_name, key.color, T_Delivered,
                                    <<"u">>, failed)} :
            /\ sheet' = r.sheet
            /\ ret' = [op |-> "update_order_status", before |-> sheet,
                       worksheet |-> worksheet,
                       key |-> key, status |-> T_Delivered, user |-> <<"u">>,
                       failed |-> failed, val |-> r.val]
    /\ UNCHANGED <<CACHE, now, gs_manager, gc, written>>

\* manager.add_order(sheet_id, worksheet, order_data)
CallAddOrder ==
    /\ ret.op = "start"
    /\ \E worksheet \in {W_Orders, W_SectionA}, order_data \in OrderDataPool,
          failed \in AddFailures :
        \E r \in {AddOrder(sheet, gc, worksheet, order_data, now, failed)} :
            /\ sheet' = r.sheet
            /\ ret' = [op |-> "add_order", before |-> sheet, t |-> now,
                       worksheet |-> worksheet,
                       order_data |-> order_data, failed |-> failed,
                       val |-> r.val]
    /\ UNCHANGED <<CACHE, now, gs_manager, gc, written>>

\* manager.delete_order(sheet_id, booth_num, item_name, color, section)
CallDeleteOrder ==
    /\ ret.op = "start"
    /\ \E section \in SectionPool, key \in KeyPool, failed \in DeleteFailures :
        \E r \in {DeleteOrder(sheet, gc, key.booth_num, key.item_name,
                              key.color, section, failed)} :
            /\ sheet' = r.sheet
            /\ ret' = [op |-> "delete_order", before |-> sheet,
                       section |-> section,
                       key |-> key, failed |-> failed, val |-> r.val]
    /\ UNCHANGED <<CACHE, now, gs_manager, gc, written>>

NextWrite ==
    \/ CallUpdateOrderStatus
    \/ CallAddOrder
    \/ CallDeleteOrder

SpecWrite == InitWrite /\ [][NextWrite]_vars

(***************************************************************************)
(* Failure specification: one call of any adapter operation on a           *)
(* spreadsheet with an inventory table and with cells that fail to parse,  *)
(* the client initialised or not, any remote call failing.                 *)
(***************************************************************************)
InventoryHeader ==
    <<I_Items, I_LoadList, I_PullList, I_Starting, I_Ordered, I_Damaged,
      I_Available, I_Requested, I_RequestedAt>>

InventoryRowOk ==
    <<<<"c">>, <<"x">>, <<>>, <<"9">>, <<"2">>, <<>>, <<"7">>, <<>>, <<>>>>

\* A starting quantity that _safe_int cannot convert
InventoryRowInf ==
    <<<<"t">>, <<>>, <<>>, <<"i", "n", "f">>, <<"2">>, <<>>, <<"7">>, <<>>, <<>>>>

FailSheets ==
    { <<[title |-> W_Orders, values |-> <<StdHeader, RowA1, RowB2>>],
        [title |-> W_SectionA, values |-> <<StdHeader, RowC3>>],
        [title |-> W_Inventory, values |-> <<InventoryHeader, InventoryRowOk>>]>>,
      <<[title |-> W_Orders, values |-> <<StdHeader, RowA1>>],
        [title |-> W_SectionA, values |-> <<StdHeader, RowInf>>],
        [title |-> W_Inventory,
         values |-> <<InventoryHeader, InventoryRowOk, InventoryRowInf>>]>>,
      <<[title |-> W_Orders, values |-> <<StdHeader, RowInf, RowA1>>],
        [title |-> W_SectionA, values |-> <<StdHeader, RowC3>>]>> }

InitFail ==
    /\ CACHE = EmptyCache
    /\ now \in WriteTimes
    /\ gs_manager = TRUE
    /\ gc \in BOOLEAN
    /\ sheet \in FailSheets
    /\ ret = [op |-> "start"]
    /\ written = EmptyCache

\* manager.get_data(sheet_id, worksheet_name); remote call 0 stands for
\* open_by_key, worksheet and get_all_values
CallGetData ==
    /\ ret.op = "start"
    /\ \E worksheet_name \in {W_Orders, W_SectionA, W_SectionB, W_Inventory},
          failed \in {{}, {0}} :
          ret' = [op |-> "get_data", worksheet_name |-> worksheet_name,
                  failed |-> failed,
                  val |-> GetData(sheet, gc, worksheet_name, 0 \notin failed)]
    /\ UNCHANGED <<CACHE, now, gs_manager, gc, sheet, written>>

\* manager.get_worksheets(sheet_id)
CallGetWorksheets ==
    /\ ret.op = "start"
    /\ \E failed \in {{}, {0}} :
          ret' = [op |-> "get_worksheets", failed |-> failed,
                  val |-> GetWorksheets(sheet, gc, 0 \notin failed)]
    /\ UNCHANGED <<CACHE, now, gs_manager, gc, sheet, written>>

\* manager.get_inventory(sheet_id)
CallGetInventory ==
    /\ ret.op = "start"
    /\ \E failed \in {{}, {0}} :
          ret' = [op |-> "get_inventory", failed |-> failed,
                  val |-> GetInventory(sheet, gc, 0 \notin failed)]
    /\ UNCHANGED <<CACHE, now, gs_manager, gc, sheet, written>>

NextFail ==
    \/ CallGetData
    \/ CallGetWorksheets
    \/ CallGetInventory
    \/ CallProcessOrdersDataframe
    \/ CallGetAllOrders
    \/ CallGetAllExhibitors
    \/ CallGetOrdersForExhibitor
    \/ CallUpdateOrderStatus
    \/ CallAddOrder
    \/ CallDeleteOrder

SpecFail == InitFail /\ [][NextFail]_vars

(***************************************************************************)
(* Race specification: one update_order_status taken step by step, the    *)
(* read of the table (line 347) and the two writes (lines 377 and 381),    *)
(* while another writer's delete_order and add_order calls run on the same *)
(* spreadsheet.  ret holds the locals of the update: data as read (read),  *)
(* the row number found (i), the columns, and for the claims the row that  *)
(* stood at row i when the status was written (target) and the number of   *)
(* deletions by the other writer since the read (deletes).                 *)
(***************************************************************************)
RaceRowPool == {RowA1, RowB2, RowC3}

\* Tables of different rows
RaceRowLists ==
    {rows \in UNION {[1..n -> RaceRowPool] : n \in 0..MaxRows} :
        \A a, b \in 1..Len(rows) : rows[a] = rows[b] => a = b}

RaceSheets == {OrdersOnly(<<StdHeader>> \o rows) : rows \in RaceRowLists}

\* The keys of the three rows
RaceKeys ==
    { [booth_num |-> <<"1">>, item_name |-> <<"c">>, color |-> <<"r">>],
      [booth_num |-> <<"2">>, item_name |-> <<"t">>, color |-> <<"g">>],
      [booth_num |-> <<"9">>, item_name |-> <<"t">>, color |-> <<>>] }

InitRace ==
    /\ CACHE = EmptyCache
    /\ now = 0
    /\ gs_manager = TRUE
    /\ gc = TRUE
    /\ sheet \in RaceSheets
    /\ ret = [op |-> "start"]
    /\ written = EmptyCache

\* Whether the update ends at the read: no data, no Status column, no row
\* found, or a row too short
EndsAtRead(data, status_col, i) ==
    \/ data = <<>>
    \/ status_col = 0
    \/ i = 0
    \/ Len(data[i]) < 5

\* The locals of update_order_status after the loop found (or not) its row
UpdateLocals(data, key, status_col, user_col, i) ==
    [op |-> "update_order_status",
     pc |-> IF EndsAtRead(data, status_col, i) THEN "done" ELSE "status",
     read |-> data, key |-> key, status_col |-> status_col,
     user_col |-> user_col, i |-> i,
     target |-> <<>>, deletes |-> 0, val |-> FALSE]

\* update_order_status up to the end of its loop: the table is read and
\* the row number of the first match computed
UpdateRead ==
    /\ ret.op = "start"
    /\ \E key \in RaceKeys :
       \E data \in {GetAllValues(Worksheet(sheet, W_Orders))} :
       \E status_col \in {LastColumn(Headers(data), H_Status)},
          user_col \in {LastColumn(Headers(data), H_User)} :
          ret' = UpdateLocals(data, key, status_col, user_col,
                    IF data = <<>> \/ status_col = 0 THEN 0
                    ELSE FirstHit(data, Max(status_col, user_col) - 1,
                                  key.booth_num, key.item_name, key.color))
    /\ UNCHANGED <<CACHE, now, gs_manager, gc, sheet, written>>

\* The row of the table at sheet row i, [] when the table ends before it
RowAt(sh, title, i) ==
    IF i <= Len(GetAllValues(Worksheet(sh, title)))
    THEN GetAllValues(Worksheet(sh, title))[i] ELSE <<>>

\* ws.update_cell(i, status_col + 1, status) with the row number of the read
UpdateWriteStatus ==
    /\ ret.op = "update_order_status"
    /\ ret.pc = "status"
    /\ sheet' = UpdateCell(sheet, W_Orders, ret.i, ret.status_col, T_Received)
    /\ ret' = [ret EXCEPT !.target = RowAt(sheet, W_Orders, ret.i),
                          !.pc = IF ret.user_col = 0 THEN "done" ELSE "user",
                          !.val = (ret.user_col = 0)]
    /\ UNCHANGED <<CACHE, now, gs_manager, gc, written>>

\* ws.update_cell(i, user_col + 1, user) and return True
UpdateWriteUser ==
    /\ ret.op = "update_order_status"
    /\ ret.pc = "user"
    /\ sheet' = WriteUser(sheet, W_Orders, ret.i, ret.user_col, <<"u">>, {}).sheet
    /\ ret' = [ret EXCEPT !.pc = "done", !.val = TRUE]
    /\ UNCHANGED <<CACHE, now, gs_manager, gc, written>>

\* The locals of the update once the other writer deleted a row
AfterOtherDelete(r, deleted) ==
    IF r.op = "update_order_status" /\ r.pc # "done" /\ deleted
    THEN [r EXCEPT !.deletes = 1] ELSE r

\* A whole delete_order of another writer
OtherDelete ==
    /\ IF ret.op = "start" THEN TRUE ELSE ret.pc # "done"
    /\ \E key \in RaceKeys :
       \E d \in {DeleteOrder(sheet, gc, key.booth_num, key.item_name,
                             key.color, <<>>, {})} :
          /\ d.val
          /\ sheet' = d.sheet
          /\ ret' = AfterOtherDelete(ret, d.val)
    /\ UNCHANGED <<CACHE, now, gs_manager, gc, written>>

\* A whole add_order of another writer, while the table has room
OtherAdd ==
    /\ IF ret.op = "start" THEN TRUE ELSE ret.pc # "done"
    /\ Len(GetAllValues(Worksheet(sheet, W_Orders))) <= MaxRows
    /\ \E a \in {AddOrder(sheet, gc, W_Orders,
                          [k \in {"Booth #", "Item", "Color"} |->
                              IF k = "Booth #" THEN <<"1">>
                              ELSE IF k = "Item" THEN <<"c">> ELSE <<"r">>],
                          now, {})} :
          /\ a.val
          /\ sheet' = a.sheet
    /\ UNCHANGED <<CACHE, now, gs_manager, gc, ret, written>>

NextRace ==
    \/ UpdateRead
    \/ UpdateWriteStatus
    \/ UpdateWriteUser
    \/ OtherDelete
    \/ OtherAdd

SpecRace == InitRace /\ [][NextRace]_vars

(***************************************************************************)
(* Counting specification: get_all_exhibitors, then                        *)
(* get_orders_for_exhibitor with the name of one of the exhibitors listed, *)
(* on the same table content; names that differ in case only are among the *)
(* rows.                                                                   *)
(***************************************************************************)
RowLowerA == MkRow(<<"4">>, <<"a">>, <<"c">>, <<"r">>, <<"1">>, T_Delivered, <<>>)

RowAb == MkRow(<<"5">>, <<"A", "b">>, <<"t">>, <<"g">>, <<"2">>, T_New, <<>>)

CountRowPool == {RowA1, RowLowerA, RowAb, RowB2}

CountSheets ==
    {OrdersOnly(<<StdHeader>> \o rows) :
        rows \in UNION {[1..n -> CountRowPool] : n \in 0..(MaxRows + 1)}}

InitCount ==
    /\ CACHE = EmptyCache
    /\ now = 0
    /\ gs_manager = TRUE
    /\ gc = TRUE
    /\ sheet \in CountSheets
    /\ ret = [op |-> "start"]
    /\ written = EmptyCache

\* manager.get_all_exhibitors(sheet_id), every remote call succeeding
CallListExhibitors ==
    /\ ret.op = "start"
    /\ ret' = [op |-> "get_all_exhibitors", failed |-> {},
               orders |-> GetAllOrders(sheet, gc, {}),
               val |-> GetAllExhibitors(sheet, gc, {})]
    /\ UNCHANGED <<CACHE, now, gs_manager, gc, sheet, written>>

\* manager.get_orders_for_exhibitor(sheet_id, e['name']) for an exhibitor e
\* of the list just returned
CallOrdersOfListed ==
    /\ ret.op = "get_all_exhibitors"
    /\ \E n \in 1..Len(ret.val) :
          ret' = [op |-> "get_orders_for_exhibitor", failed |-> {},
                  exhibitor_name |-> ret.val[n].name,
                  orders |-> GetAllOrders(sheet, gc, {}),
                  e |-> ret.val[n],
                  val |-> GetOrdersForExhibitor(sheet, gc, {},
                                                ret.val[n].name)]
    /\ UNCHANGED <<CACHE, now, gs_manager, gc, sheet, written>>

NextCount ==
    \/ CallListExhibitors
    \/ CallOrdersOfListed

SpecCount == InitCount /\ [][NextCount]_vars

(***************************************************************************)
(* Throttle specification: GET /api/orders without force_refresh, time    *)
(* passing and the spreadsheet edited between the requests, the cache      *)
(* never cleared.  ret carries, for the claims, the time the adapter was   *)
(* last invoked for the orders key (last, -1 for never), whether a        *)
(* request was served from the cache since (served) and, after a request,  *)
(* the cache it found (before) and the invocation before its own (prev).   *)
(***************************************************************************)
InitThrottle ==
    /\ CACHE = EmptyCache
    /\ now = 0
    /\ gs_manager \in BOOLEAN
    /\ gc \in BOOLEAN
    /\ gs_manager = FALSE => gc = FALSE
    /\ sheet \in CacheSheets
    /\ ret = [op |-> "start", last |-> -1, served |-> FALSE]
    /\ written = EmptyCache

\* Time passes between requests.
ThrottleTick ==
    /\ now + TickStep <= MaxNow
    /\ now' = now + TickStep
    /\ ret' = [op |-> "tick", last |-> ret.last, served |-> ret.served]
    /\ UNCHANGED <<CACHE, gs_manager, gc, sheet, written>>

\* Somebody edits the spreadsheet.
ThrottleEdit ==
    /\ sheet' \in CacheSheets \ {sheet}
    /\ ret' = [op |-> "edit", last |-> ret.last, served |-> ret.served]
    /\ UNCHANGED <<CACHE, now, gs_manager, gc, written>>

\* GET /api/orders without force_refresh
OrdersRequest ==
    \E d \in CallDurations, failed \in CacheFailures :
      \E r \in {LoadOrdersFromNewSheet(CACHE, now, d, FALSE, gs_manager,
                                       AllOrdersOf[sheet][gc][failed])} :
        /\ r.t <= MaxNow
        /\ CACHE' = r.cache
        /\ now' = r.t
        /\ written' = Record(written, r.sets)
        /\ ret' = [op |-> "orders", t |-> now, invoked |-> r.invoked,
                   val |-> r.val, before |-> CACHE, prev |-> ret.last,
                   last |-> IF r.invoked THEN now ELSE ret.last,
                   was_served |-> ret.served,
                   served |-> IF r.invoked THEN FALSE
                              ELSE IF r.sets = <<>> THEN TRUE
                              ELSE ret.served]
        /\ UNCHANGED <<gs_manager, gc, sheet>>

NextThrottle ==
    \/ ThrottleTick
    \/ ThrottleEdit
    \/ OrdersRequest

SpecThrottle == InitThrottle /\ [][NextThrottle]_vars

(***************************************************************************)
(* Claims about the adapter's readers (specification SpecSheet)            *)
(***************************************************************************)
\* The documented lookup table of map_order_status
StatusTable ==
    { <<T_Delivered, "delivered">>, <<T_Received, "delivered">>,
      <<T_OutForDelivery, "out-for-delivery">>, <<T_InRoute, "in-route">>,
      <<T_InProcess, "in-process">>, <<T_cancelled, "cancelled">>,
      <<T_Cancelled, "cancelled">>, <<T_New, "in-process">> }

\* C6: map_order_status maps every input text to one of the five statuses:
\* a text of the lookup table to its documented output, every other text,
\* the empty one included, to in-process.
C6_StatusMapping ==
    ret.op = "map_order_status"
    => /\ ret.val \in {"in-process", "out-for-delivery", "in-route",
                       "delivered", "cancelled"}
       /\ \A e \in StatusTable : ret.sheet_status = e[1] => ret.val = e[2]
       /\ (\A e \in StatusTable : ret.sheet_status # e[1])
          => ret.val = "in-process"

\* "Received" mapped to delivered
C6_Witness ==
    /\ ret.op = "map_order_status"
    /\ ret.sheet_status = T_Received
    /\ ret.val = "delivered"

\* Whether a data row has a booth number and an exhibitor name that are
\* not blank after trimming
HasEssentials(columns, row) ==
    /\ Strip(RowGet(columns, row, H_Booth, <<>>)) # <<>>
    /\ Strip(RowGet(columns, row, H_Exhibitor, <<>>)) # <<>>

\* The positions in table df of the rows after the header that have them
KeptRows(df) == {i \in 2..Len(df) : HasEssentials(Columns(df), df[i])}

\* The position of the k-th such row
NthKept(df, k) ==
    CHOOSE i \in KeptRows(df) : Cardinality({j \in KeptRows(df) : j <= i}) = k

\* C7: process_orders_dataframe takes the first row as the header and
\* emits, in row order, exactly one order for each later row whose booth
\* number and exhibitor name are both non-blank after trimming; other rows
\* are excluded and a table of fewer than two rows yields no order.
C7_OneOrderPerValidRow ==
    ret.op = "process_orders_dataframe"
    => IF DfEmpty(ret.df) \/ Len(ret.df) < 2
       THEN ret.val = <<>>
       ELSE /\ Len(ret.val) = Cardinality(KeptRows(ret.df))
            /\ \A k \in 1..Len(ret.val) :
                  /\ ret.val[k].booth_number =
                        Strip(RowGet(Columns(ret.df), ret.df[NthKept(ret.df, k)],
                                     H_Booth, <<>>))
                  /\ ret.val[k].exhibitor_name =
                        Strip(RowGet(Columns(ret.df), ret.df[NthKept(ret.df, k)],
                                     H_Exhibitor, <<>>))

\* Whether the text of a quantity cell fails integer coercion: it is blank
\* or no number
CoercionFails(cell) ==
    \/ Strip(cell) = <<>>
    \/ ParseFloat(cell).kind \in {"err", "nan"}

\* Whether the call returned one order for each row with the essentials
OrdersMatchRows ==
    /\ ret.op = "process_orders_dataframe"
    /\ ~DfEmpty(ret.df)
    /\ Len(ret.df) >= 2
    /\ Len(ret.val) = Cardinality(KeptRows(ret.df))

\* C8: in process_orders_dataframe a quantity cell that fails integer
\* coercion (blank or non-numeric) yields the documented default: 1 for
\* the quantity, 0 for the Boomer's quantity.
C8_QuantityDefaults ==
    OrdersMatchRows
    => \A k \in 1..Len(ret.val) :
          /\ CoercionFails(RowGet(Columns(ret.df), ret.df[NthKept(ret.df, k)],
                                  H_Quantity, <<"1">>))
             => ret.val[k].quantity = 1
          /\ CoercionFails(RowGet(Columns(ret.df), ret.df[NthKept(ret.df, k)],
                                  H_Boomers, <<"0">>))
             => ret.val[k].boomers_quantity = 0

\* C9: every order process_orders_dataframe produces has a quantity that
\* is an integer greater than or equal to 0, whatever the quantity cell
\* holds.
C9_QuantityNotNegative ==
    ret.op = "process_orders_dataframe"
    => \A k \in 1..Len(ret.val) : ret.val[k].quantity \in Nat

\* The titles get_all_orders reads on spreadsheet sh: "Orders", then the
\* titles that start with "Section" in the order the worksheets are listed
TablesRead(sh) ==
    <<W_Orders>>
        \o SelectSeq([i \in 1..Len(sh) |-> sh[i].title],
                     LAMBDA title : StartsWith(title, W_SectionPrefix))

\* process_orders_dataframe over the table titled title, nothing when the
\* spreadsheet has no such worksheet
OrdersOfTable(sh, title) ==
    IF HasWorksheet(sh, title)
    THEN ProcessOrdersDataframe(GetAllValues(Worksheet(sh, title)))
    ELSE <<>>

RECURSIVE ConcatOrders(_, _)
\* The orders of the tables titled titles, one table after the other
ConcatOrders(sh, titles) ==
    IF titles = <<>> THEN <<>>
    ELSE OrdersOfTable(sh, Head(titles)) \o ConcatOrders(sh, Tail(titles))

RECURSIVE SumTotalOrders(_)
\* The sum of total_orders over a sequence of exhibitors
SumTotalOrders(exhibitors) ==
    IF exhibitors = <<>> THEN 0
    ELSE Head(exhibitors).total_orders + SumTotalOrders(Tail(exhibitors))

\* The positions in orders of the orders of the exhibitor named name
OrdersNamed(orders, name) ==
    {i \in 1..Len(orders) : orders[i].exhibitor_name = name}

\* C11: for the N orders its get_all_orders returned, get_all_exhibitors
\* returns exhibitors whose total_orders sum to N, each with
\* 0 <= delivered_orders <= total_orders and delivered_orders the number
\* of that exhibitor's orders whose status is delivered.
C11_ExhibitorCounts ==
    ret.op = "get_all_exhibitors"
    => /\ SumTotalOrders(ret.val) = Len(ret.orders)
       /\ \A k \in 1..Len(ret.val) :
            /\ 0 <= ret.val[k].delivered_orders
            /\ ret.val[k].delivered_orders <= ret.val[k].total_orders
            /\ ret.val[k].delivered_orders =
                 Cardinality({i \in OrdersNamed(ret.orders, ret.val[k].name) :
                                 ret.orders[i].status = "delivered"})

\* Three orders of two exhibitors, one of them with a delivered order and
\* an order that is not delivered
C11_Witness ==
    /\ ret.op = "get_all_exhibitors"
    /\ Len(ret.orders) = 3
    /\ Len(ret.val) = 2
    /\ \E k \in 1..2 : /\ ret.val[k].total_orders = 2
                      /\ ret.val[k].delivered_orders = 1

\* The position of the first order of the exhibitor named name
FirstNamed(orders, name) ==
    CHOOSE i \in OrdersNamed(orders, name) :
        \A j \in OrdersNamed(orders, name) : i <= j

\* C12: get_all_exhibitors returns exactly one exhibitor per distinct
\* exhibitor name of get_all_orders, in the order the names first appear,
\* with the booth number of the first order of that name, later orders of
\* the name with another booth number notwithstanding.
C12_OnePerNameFirstBooth ==
    ret.op = "get_all_exhibitors"
    => /\ {ret.val[k].name : k \in 1..Len(ret.val)}
             = {ret.orders[i].exhibitor_name : i \in 1..Len(ret.orders)}
       /\ \A k, l \in 1..Len(ret.val) :
             k < l => FirstNamed(ret.orders, ret.val[k].name)
                        < FirstNamed(ret.orders, ret.val[l].name)
       /\ \A k \in 1..Len(ret.val) :
             ret.val[k].booth =
                ret.orders[FirstNamed(ret.orders, ret.val[k].name)].booth_number

\* An exhibitor whose second order carries another booth number than its
\* first, listed after an exhibitor that appeared earlier
C12_Witness ==
    /\ ret.op = "get_all_exhibitors"
    /\ Len(ret.val) = 2
    /\ Len(ret.orders) = 3
    /\ ret.orders[2].exhibitor_name = ret.orders[3].exhibitor_name
    /\ ret.orders[2].booth_number # ret.orders[3].booth_number
    /\ ret.val[2].booth = ret.orders[2].booth_number

\* The positions in orders of the orders whose exhibitor name is name up
\* to case
OrdersOfName(orders, name) ==
    {i \in 1..Len(orders) : Lower(orders[i].exhibitor_name) = Lower(name)}

\* C13: get_orders_for_exhibitor returns exactly the subsequence of
\* get_all_orders, in the same order, whose exhibitor name equals the name
\* asked for when both are compared case-insensitively in full: "a" finds
\* the orders of "A" and of "a", "Ab" and the empty name find none of them.
C13_CaseInsensitiveExactFilter ==
    ret.op = "get_orders_for_exhibitor"
    => /\ Len(ret.val) = Cardinality(OrdersOfName(ret.orders, ret.exhibitor_name))
       /\ \A k \in 1..Len(ret.val) :
            \E i \in OrdersOfName(ret.orders, ret.exhibitor_name) :
               /\ Cardinality({j \in OrdersOfName(ret.orders, ret.exhibitor_name) :
                                  j <= i}) = k
               /\ ret.val[k] = ret.orders[i]
       /\ \A k \in 1..Len(ret.val) :
            ret.val[k].exhibitor_name \in
               IF ret.exhibitor_name \in {<<"A">>, <<"a">>}
               THEN {<<"A">>, <<"a">>} ELSE {}

\* Asked for "a", the orders of "A" and of "a" are returned and the order
\* of another exhibitor between them is not
C13_Witness ==
    /\ ret.op = "get_orders_for_exhibitor"
    /\ ret.exhibitor_name = <<"a">>
    /\ Len(ret.orders) = 3
    /\ Len(ret.val) = 2
    /\ ret.val[1].exhibitor_name = <<"A">>
    /\ ret.val[2].exhibitor_name = <<"a">>
    /\ ret.val[2] = ret.orders[3]

(***************************************************************************)
(* Claims about the adapter's writers (specification SpecWrite)            *)
(***************************************************************************)
\* The table titled title as the writers read it, no row when the
\* spreadsheet has no such worksheet
TableOf(sh, title) ==
    IF HasWorksheet(sh, title) THEN GetAllValues(Worksheet(sh, title))
    ELSE <<>>

\* Whether columns 0, 3 and 4 of the row equal the key once trimmed
KeyMatches(row, key) ==
    /\ Len(row) >= 5
    /\ Strip(row[1]) = Strip(key.booth_num)
    /\ Strip(row[4]) = Strip(key.item_name)
    /\ Strip(row[5]) = Strip(key.color)

\* The sheet row numbers of the data rows of a table that match the key
MatchingRows(sh, title, key) ==
    {i \in 2..Len(TableOf(sh, title)) : KeyMatches(TableOf(sh, title)[i], key)}

\* The smallest of a set of numbers
Least(S) == CHOOSE i \in S : \A j \in S : i <= j

\* C14: update_order_status called with a (booth, item, color) key that
\* matches no data row of the table returns failure and leaves every cell
\* of every row unmodified.
C14_UpdateOfNoRow ==
    (/\ ret.op = "update_order_status"
     /\ MatchingRows(ret.before, ret.worksheet, ret.key) = {})
    => (~ret.val /\ sheet = ret.before)

\* A call whose remote calls all succeed, on a table with a Status column
\* and two data rows or more, none of which has the key
C14_Witness ==
    /\ ret.op = "update_order_status"
    /\ gc
    /\ ret.failed = {}
    /\ Len(TableOf(ret.before, ret.worksheet)) >= 3
    /\ LastColumn(TableOf(ret.before, ret.worksheet)[1], H_Status) # 0
    /\ MatchingRows(ret.before, ret.worksheet, ret.key) = {}
    /\ ~ret.val
    /\ sheet = ret.before

\* Whether table new is table old but for the status cell and, when the
\* header has a User column, the user cell of row r
OnlyRowUpdated(old, new, r, status_col, user_col, status, user) ==
    /\ Len(new) = Len(old)
    /\ \A i \in 1..Len(old) :
         /\ Len(new[i]) = Len(old[i])
         /\ \A j \in 1..Len(old[i]) :
              new[i][j] = IF i = r /\ j = status_col THEN status
                          ELSE IF i = r /\ j = user_col THEN user
                          ELSE old[i][j]

\* Whether the worksheets other than the one titled title are the same
OtherSheetsSame(old, new, title) ==
    /\ Len(new) = Len(old)
    /\ \A n \in 1..Len(old) :
         /\ new[n].title = old[n].title
         /\ old[n].title # title => new[n] = old[n]

\* C15: when its remote calls succeed, update_order_status compares the
\* trimmed columns 0, 3 and 4 of each data row with (booth, item, color);
\* on a match it overwrites the status cell, and the user cell when there
\* is a User column, of the first matching row only, at that row's sheet
\* row number, and returns success; without a Status column it returns
\* failure and writes nothing.
C15_UpdateFirstMatch ==
    (ret.op = "update_order_status" /\ gc /\ ret.failed = {})
    => IF TableOf(ret.before, ret.worksheet) = <<>>
       THEN ~ret.val /\ sheet = ret.before
       ELSE IF LastColumn(TableOf(ret.before, ret.worksheet)[1], H_Status) = 0
       THEN ~ret.val /\ sheet = ret.before
       ELSE IF MatchingRows(ret.before, ret.worksheet, ret.key) = {}
       THEN ~ret.val
       ELSE /\ ret.val
            /\ OtherSheetsSame(ret.before, sheet, ret.worksheet)
            /\ OnlyRowUpdated(
                 TableOf(ret.before, ret.worksheet),
                 TableOf(sheet, ret.worksheet),
                 Least(MatchingRows(ret.before, ret.worksheet, ret.key)),
                 LastColumn(TableOf(ret.before, ret.worksheet)[1], H_Status),
                 LastColumn(TableOf(ret.before, ret.worksheet)[1], H_User),
                 ret.status, ret.user)

\* A successful call on a table with a User column where the second and
\* the third sheet row both match the padded key: the second is updated
C15_Witness ==
    /\ ret.op = "update_order_status"
    /\ ret.val
    /\ ret.key.booth_num = <<" ", "1">>
    /\ MatchingRows(ret.before, ret.worksheet, ret.key) = {2, 3}
    /\ TableOf(ret.before, ret.worksheet)[1] = StdHeader
    /\ TableOf(sheet, ret.worksheet)[2][9] = T_Delivered
    /\ TableOf(sheet, ret.worksheet)[2][13] = <<"u">>
    /\ TableOf(sheet, ret.worksheet)[3] = TableOf(ret.before, ret.worksheet)[3]
    /\ TableOf(ret.before, ret.worksheet)[2][9] # T_Delivered

\* The thirteen cells of the row add_order appends, date and hour being
\* the texts of the server's clock
ExpectedNewRow(order_data, date, hour) ==
    <<DictGet(order_data, "Booth #", <<>>),
      DictGet(order_data, "Section", <<>>),
      DictGet(order_data, "Exhibitor Name", <<>>),
      DictGet(order_data, "Item", <<>>),
      DictGet(order_data, "Color", <<>>),
      DictGet(order_data, "Quantity", <<"1">>),
      date,
      hour,
      DictGet(order_data, "Status", T_InProcess),
      DictGet(order_data, "Type", <<"N", "e", "w", " ", "O", "r", "d", "e", "r">>),
      DictGet(order_data, "Boomers Quantity", <<"0">>),
      DictGet(order_data, "Comments", <<>>),
      DictGet(order_data, "User", <<>>)>>

\* The server's date and time at the clock readings of the model
ClockDate(t) ==
    IF t = 0 THEN <<"0", "1", "/", "0", "1", "/", "1", "9", "7", "0">>
    ELSE <<"0", "2", "/", "2", "9", "/", "2", "0", "2", "4">>

ClockHour(t) ==
    IF t = 0 THEN <<"1", "2", ":", "0", "0", ":", "0", "0", " ", "A", "M">>
    ELSE <<"1", "1", ":", "5", "9", ":", "5", "9", " ", "P", "M">>

\* C16: a successful add_order appends exactly one row at the end of the
\* named table and leaves all existing rows unchanged; the new row has
\* the fixed column order (booth, section, exhibitor, item, color,
\* quantity, date, time, status, type, secondary quantity, comments,
\* user), its date and time being the server's current date and time
\* whatever date or time the caller supplied.
C16_AddAppendsOneRow ==
    (ret.op = "add_order" /\ ret.val)
    => /\ HasWorksheet(ret.before, ret.worksheet)
       /\ OtherSheetsSame(ret.before, sheet, ret.worksheet)
       /\ Worksheet(sheet, ret.worksheet).values =
            Append(Worksheet(ret.before, ret.worksheet).values,
                   ExpectedNewRow(ret.order_data, ClockDate(ret.t),
                                  ClockHour(ret.t)))

\* A successful call with a date and an hour of the caller's, on a table
\* that had rows: the new last row carries the server's date
C16_Witness ==
    /\ ret.op = "add_order"
    /\ ret.val
    /\ "Date" \in DOMAIN ret.order_data
    /\ ret.t # 0
    /\ Len(Worksheet(ret.before, ret.worksheet).values) = 3
    /\ Len(Worksheet(sheet, ret.worksheet).values) = 4
    /\ Worksheet(sheet, ret.worksheet).values[4][7] = ClockDate(ret.t)
    /\ Worksheet(sheet, ret.worksheet).values[4][7] # ret.order_data["Date"]

\* The tables delete_order searches, in the order it searches them
SearchOrder(section) ==
    IF section = <<>> THEN <<W_Orders>> ELSE <<section, W_Orders>>

\* The positions in the search order of the tables that are accessible in
\* the call (there is a client, the spreadsheet opens, the table exists
\* and no remote call on it fails) and hold a row matching the key
TablesWithMatch(sh, client, section, key, failed) ==
    {k \in 1..Len(SearchOrder(section)) :
        /\ client
        /\ 0 \notin failed
        /\ (2 * k - 1) \notin failed
        /\ (2 * k) \notin failed
        /\ MatchingRows(sh, SearchOrder(section)[k], key) # {}}

\* Whether rows new are rows old without the row numbered r
RowRemoved(old, new, r) ==
    /\ Len(new) = Len(old) - 1
    /\ \A i \in 1..Len(new) : new[i] = IF i < r THEN old[i] ELSE old[i + 1]

\* C17: delete_order searches the named section table first when a
\* section is given and the primary "Orders" table only if the section
\* table is inaccessible, empty or has no match; a successful call deletes
\* exactly one row, the first row matching (booth, item, color) on columns
\* 0, 3, 4 in the first table that contains a match, and leaves every
\* other row and table unchanged; when no table contains a match the call
\* returns failure and removes no row.
C17_DeleteFirstMatch ==
    ret.op = "delete_order"
    => IF TablesWithMatch(ret.before, gc, ret.section, ret.key, ret.failed) = {}
       THEN ~ret.val /\ sheet = ret.before
       ELSE /\ ret.val
            /\ OtherSheetsSame(
                 ret.before, sheet,
                 SearchOrder(ret.section)[
                    Least(TablesWithMatch(ret.before, gc, ret.section,
                                          ret.key, ret.failed))])
            /\ RowRemoved(
                 Worksheet(ret.before,
                    SearchOrder(ret.section)[
                       Least(TablesWithMatch(ret.before, gc, ret.section,
                                             ret.key, ret.failed))]).values,
                 Worksheet(sheet,
                    SearchOrder(ret.section)[
                       Least(TablesWithMatch(ret.before, gc, ret.section,
                                             ret.key, ret.failed))]).values,
                 Least(MatchingRows(ret.before,
                    SearchOrder(ret.section)[
                       Least(TablesWithMatch(ret.before, gc, ret.section,
                                             ret.key, ret.failed))],
                    ret.key)))

\* A call for "Section A" when both that table and "Orders" hold a match,
\* "Orders" two of them: the row of the section table is deleted and
\* "Orders" is as it was
C17_Witness ==
    /\ ret.op = "delete_order"
    /\ ret.val
    /\ ret.failed = {}
    /\ ret.section = W_SectionA
    /\ MatchingRows(ret.before, W_SectionA, ret.key) = {2}
    /\ MatchingRows(ret.before, W_Orders, ret.key) = {2, 3}
    /\ Len(TableOf(sheet, W_SectionA)) = 1
    /\ Worksheet(sheet, W_Orders) = Worksheet(ret.before, W_Orders)

\* C20: whenever update_order_status returns failure, for any cause, no
\* cell of the table has been modified by the call; in particular the
\* status cell is not left changed when the write of the user cell fails.
C20_FailedUpdateWritesNothing ==
    (ret.op = "update_order_status" /\ ~ret.val) => sheet = ret.before

(***************************************************************************)
(* Claims about failures (specification SpecFail)                          *)
(***************************************************************************)
ReaderOps ==
    {"get_data", "get_worksheets", "get_inventory", "get_all_orders",
     "get_all_exhibitors", "get_orders_for_exhibitor"}

WriterOps == {"update_order_status", "add_order", "delete_order"}

\* Whether a row of the table makes a quantity conversion raise
ParsingFails(df) ==
    /\ ~DfEmpty(df)
    /\ Len(df) >= 2
    /\ \E i \in 2..Len(df) :
          /\ HasEssentials(Columns(df), df[i])
          /\ \/ ParseFloat(RowGet(Columns(df), df[i], H_Quantity, <<"1">>)).kind
                   = "inf"
             \/ ParseFloat(RowGet(Columns(df), df[i], H_Boomers, <<"0">>)).kind
                   = "inf"

\* C18 as stated: no adapter operation lets an error escape; when the
\* client is uninitialised or any remote call or parsing step fails,
\* get_data returns an empty table, get_worksheets and the order, exhibitor
\* and inventory readers return an empty sequence, and update_order_status,
\* add_order and delete_order return failure.
C18_AnyFailureEmpties ==
    /\ (ret.op \in ReaderOps /\ (~gc \/ ret.failed # {})) => ret.val = <<>>
    /\ (ret.op \in WriterOps /\ (~gc \/ ret.failed # {})) => ~ret.val
    /\ (ret.op = "process_orders_dataframe" /\ ParsingFails(ret.df))
       => ret.val = <<>>
    /\ (/\ ret.op = "get_all_orders"
        /\ \E n \in 1..Len(sheet) : ParsingFails(GetAllValues(sheet[n])))
       => ret.val = <<>>

RECURSIVE OrdersRead(_, _, _, _)
\* The orders of the section tables from the j-th on whose read does not
\* fail
OrdersRead(sh, titles, j, failed) ==
    IF j > Len(titles) THEN <<>>
    ELSE (IF (1 + j) \in failed THEN <<>> ELSE OrdersOfTable(sh, titles[j]))
            \o OrdersRead(sh, titles, j + 1, failed)

\* The orders of the tables get_all_orders reads without failure
OrdersDespiteFailures(sh, failed) ==
    (IF 0 \in failed THEN <<>> ELSE OrdersOfTable(sh, W_Orders))
        \o (IF 1 \in failed THEN <<>>
            ELSE OrdersRead(sh, Tail(TablesRead(sh)), 1, failed))

\* The remote calls an update_order_status makes on the spreadsheet
UpdateCallsMade(sh, worksheet, key) ==
    {0, 1, 2}
        \cup (IF /\ MatchingRows(sh, worksheet, key) # {}
                 /\ LastColumn(TableOf(sh, worksheet)[1], H_Status) # 0
              THEN {3} \cup
                   (IF LastColumn(TableOf(sh, worksheet)[1], H_User) # 0
                    THEN {4} ELSE {})
              ELSE {})

\* C18 amended: no adapter operation lets an error escape.  With the client
\* uninitialised every reader returns an empty result and every writer
\* returns failure and writes nothing.  A failing remote call or parsing
\* step empties what it was to deliver: get_data, get_worksheets,
\* get_inventory and process_orders_dataframe return an empty result;
\* get_all_orders, and with it get_all_exhibitors and
\* get_orders_for_exhibitor, leaves out the orders of the tables whose read
\* or parsing failed and keeps those of the others; update_order_status and
\* add_order return failure when a remote call they make fails;
\* delete_order returns failure and deletes nothing when the spreadsheet
\* does not open or every table it tries is inaccessible.
C18_FailuresDegrade ==
    /\ (ret.op \in ReaderOps /\ ~gc) => ret.val = <<>>
    /\ (ret.op \in WriterOps /\ ~gc) => (~ret.val /\ sheet = ret.before)
    /\ (/\ ret.op \in {"get_data", "get_worksheets", "get_inventory"}
        /\ ret.failed # {})
       => ret.val = <<>>
    /\ (/\ ret.op = "get_inventory"
        /\ HasWorksheet(sheet, W_Inventory)
        /\ \E i \in 2..Len(TableOf(sheet, W_Inventory)) :
              TableOf(sheet, W_Inventory)[i][4] = <<"i", "n", "f">>)
       => ret.val = <<>>
    /\ (ret.op = "process_orders_dataframe" /\ ParsingFails(ret.df))
       => ret.val = <<>>
    /\ (ret.op = "get_all_orders" /\ gc)
       => ret.val = OrdersDespiteFailures(sheet, ret.failed)
    /\ (ret.op \in {"get_all_exhibitors", "get_orders_for_exhibitor"} /\ gc)
       => /\ ret.orders = OrdersDespiteFailures(sheet, ret.failed)
          /\ ret.orders = <<>> => ret.val = <<>>
    /\ (/\ ret.op = "update_order_status"
        /\ gc
        /\ ret.failed \cap UpdateCallsMade(ret.before, ret.worksheet, ret.key)
              # {})
       => ~ret.val
    /\ (ret.op = "add_order" /\ ret.failed # {})
       => (~ret.val /\ sheet = ret.before)
    /\ (/\ ret.op = "delete_order"
        /\ \/ 0 \in ret.failed
           \/ \A k \in 1..Len(SearchOrder(ret.section)) :
                 (2 * k - 1) \in ret.failed \/ (2 * k) \in ret.failed)
       => (~ret.val /\ sheet = ret.before)

\* get_all_orders when the read of "Orders" fails and the read of
\* "Section A" does not: the orders of "Section A" are returned
C18_Witness ==
    /\ ret.op = "get_all_orders"
    /\ gc
    /\ ret.failed = {0}
    /\ ret.val # <<>>
    /\ ret.val = OrdersOfTable(sheet, W_SectionA)

(***************************************************************************)
(* Claims about concurrent writers (specification SpecRace)                *)
(***************************************************************************)
\* The row the update matched when it read the table
MatchedRow(r) == r.read[r.i]

\* Whether the update has written the status cell
StatusWritten(r) ==
    r.op = "update_order_status" /\ r.pc \in {"user", "done"} /\ r.i # 0
        /\ ~EndsAtRead(r.read, r.status_col, r.i)

\* C19: the adapter does not serialise writers.  An update_order_status
\* that found its row writes the row number it computed at the read and
\* returns success whatever happened to the table since; the row it writes
\* is the row it matched unless another writer's delete_order completed
\* between the read and the write, and then it can be another row or no
\* row at all (C19_Witness).
C19_RaceOnlyByInterleaving ==
    /\ (StatusWritten(ret) /\ ret.pc = "done") => ret.val
    /\ (StatusWritten(ret) /\ ret.deletes = 0)
       => /\ ret.target = MatchedRow(ret)
          /\ KeyMatches(ret.target, ret.key)
          /\ ret.i = Least({j \in 2..Len(ret.read) :
                               KeyMatches(ret.read[j], ret.key)})

\* A delete_order completed between the read and the write: the update
\* returned success and the status of a row with another key is overwritten
C19_Witness ==
    /\ StatusWritten(ret)
    /\ ret.pc = "done"
    /\ ret.val
    /\ ret.deletes > 0
    /\ Len(ret.target) >= 5
    /\ ~KeyMatches(ret.target, ret.key)
    /\ ret.target # MatchedRow(ret)
    /\ RowAt(sheet, W_Orders, ret.i)[ret.status_col] = T_Received
    /\ ~KeyMatches(RowAt(sheet, W_Orders, ret.i), ret.key)

(***************************************************************************)
(* Claims about the exhibitor counts and the filter (specification         *)
(* SpecCount)                                                              *)
(***************************************************************************)
\* C21: for every table content and every exhibitor e returned by
\* get_all_exhibitors, e.total_orders equals the number of orders that
\* get_orders_for_exhibitor returns for e.name on the same table content.
C21_CountEqualsFiltered ==
    ret.op = "get_orders_for_exhibitor" => ret.e.total_orders = Len(ret.val)

(***************************************************************************)
(* Claims about the rate of adapter invocations (specification             *)
(* SpecThrottle)                                                           *)
(***************************************************************************)
\* C22: in a sequence of orders read requests without force_refresh and
\* without a cache clear, get_all_orders is invoked only when the orders
\* entry of the cache is missing or at least CACHE_DURATION seconds old;
\* two consecutive invocations for the orders key are at least
\* CACHE_DURATION seconds apart, and a request that does not invoke the
\* adapter returns the value stored last under the orders key, the cache
\* left as it was.
C22_InvocationsThrottled ==
    ret.op = "orders" =>
        /\ ret.invoked
           => \/ K_ORDERS \notin DOMAIN ret.before
              \/ ret.t - ret.before[K_ORDERS].timestamp >= CACHE_DURATION
        /\ (ret.invoked /\ ret.prev >= 0)
           => ret.t - ret.prev >= CACHE_DURATION
        /\ (~ret.invoked /\ gs_manager)
           => /\ K_ORDERS \in DOMAIN ret.before
              /\ ret.val = ret.before[K_ORDERS].data
              /\ ret.val = written[K_ORDERS].data
              /\ ret.t - ret.before[K_ORDERS].timestamp < CACHE_DURATION
              /\ CACHE = ret.before

\* A second invocation of the adapter, after requests served from the
\* cache since the first
C22_Witness ==
    /\ ret.op = "orders"
    /\ ret.invoked
    /\ ret.prev >= 0
    /\ ret.was_served
    /\ K_ORDERS \in DOMAIN ret.before
    /\ ret.t - ret.before[K_ORDERS].timestamp >= CACHE_DURATION

====
